---- MODULE Spec2Model ----
(***************************************************************************)
(* Model of serverless_worker.py.                                          *)
(*                                                                         *)
(* Spec     the execution-monitoring protocol step by step: handler's      *)
(*          submit -> monitor step, process_with_websocket (the Stream     *)
(*          Monitor) and process_with_polling (the Poll Monitor).          *)
(* JobSpec  one whole call of handler, from the job input to the response: *)
(*          validate_input, start_comfyui_server, check_server,            *)
(*          upload_images, queue_workflow, the monitor call taken as one   *)
(*          step (its outcomes are those Spec reaches, see                 *)
(*          OutcomesCoverMonitors), get_history, the collection loop and   *)
(*          the final result.                                              *)
(* PollSpec one call of process_with_polling, with fairness.               *)
(*                                                                         *)
(* A Python string is a sequence of tokens (a token is a character or a    *)
(* whole word), so that concatenation is \o and `a in b` is a search for a *)
(* contiguous subsequence.  JSON values are tagged records.                *)
(***************************************************************************)
EXTENDS Integers, Sequences, FiniteSets, TLC

(* ----------------------------- bounds ---------------------------------- *)
MaxAttempts == 2      \* WEBSOCKET_RECONNECT_ATTEMPTS is drawn from 0..MaxAttempts
MaxMsgs == 2          \* payloads delivered to one monitor call
MaxTimeouts == 2      \* receive timeouts counted in one monitor call
MaxClosures == 2      \* closed-channel signals in one monitor call
MaxQueue == 1         \* entries of queue_pending and queue_running together
MaxFetchDelay == 1    \* whole seconds one poll iteration spends in its HTTP calls
PollTimeout == 3      \* the timeout argument of process_with_polling, in seconds
                      \* (handler passes the default, 600; the loop is the same
                      \* for every value)

MaxImages == 2        \* entries of the "images" list of a job input
MaxArtifacts == 2     \* nodes of one manifest, and image entries over all its nodes

(* ------------------------- program constants --------------------------- *)
WEBSOCKET_RECONNECT_DELAY_S == 3
PollSleep == 1
COMFY_HOST == <<"127.0.0.1:8188">>

(* ------------------------------ JSON ----------------------------------- *)
Null == [t |-> "null"]
Str(s) == [t |-> "str", s |-> s]
List == [t |-> "list"]
Dict(f) == [t |-> "dict", d |-> f]
EmptyDict == Dict(<<>>)
InvalidJson == [t |-> "invalid"]

\* dict.get(k, default) on a value known to be a dict
Get(v, k, default) == IF k \in DOMAIN v.d THEN v.d[k] ELSE default

\* str(.) of a value inside an f-string
PyStr(v) == IF v.t = "null" THEN <<"N", "o", "n", "e">>
            ELSE IF v.t = "str" THEN v.s
            ELSE <<"?">>

(* ---------------------------- prompt ids ------------------------------- *)
P1 == <<"a", "b">>
P2 == <<"c", "d">>
PromptIds == {P1, P2}

(* ------------------------- websocket payloads -------------------------- *)
Bytes == [k |-> "bytes"]
Text(j) == [k |-> "text", j |-> j]

Msg(type, data) == Text(Dict([type |-> Str(<<type>>), data |-> data]))

StatusData == Dict([status |-> Dict([exec_info |-> Dict([queue_remaining |-> Str(<<"1">>)])])])
ErrData(p) == Dict([prompt_id |-> Str(p), node_type |-> Str(<<"K">>),
                    node_id |-> Str(<<"7">>), exception_message |-> Str(<<"o", "o", "m">>)])

Payloads ==
    { Bytes,
      Text(InvalidJson),
      Text(List),
      Text(Null),
      Msg("status", StatusData),
      Msg("status", Str(<<"x">>)),
      Msg("progress", EmptyDict),
      Msg("executing", Null),
      Msg("executing", Dict([node |-> Str(<<"7">>), prompt_id |-> Str(P1)])),
      Msg("executing", Dict([prompt_id |-> Str(P1)])) }
    \cup { Msg("executing", Dict([node |-> Null, prompt_id |-> Str(p)])) : p \in PromptIds }
    \cup { Msg("execution_error", ErrData(p)) : p \in PromptIds }

VARIABLES
    N,               \* WEBSOCKET_RECONNECT_ATTEMPTS, read from the environment
    lib,             \* TRUE iff `import websocket` succeeds in this worker
    hpc,             \* position of handler
    client_id,       \* handler's client_id
    prompt_id,       \* handler's prompt_id
    h_errors,        \* handler's errors
    monitors,        \* the monitors handler has called, in order
    response,        \* what handler returned
    job_input,       \* job["input"]
    comfy_process,   \* the global comfy_process: "none", "running" or "exited"
    bucket,          \* TRUE iff BUCKET_ENDPOINT_URL is set
    probes,          \* what each call of check_server returned, in order
    input_images,    \* handler's input_images
    uploaded,        \* images upload_images has gone through
    upload_errors,   \* its local errors
    calls,           \* the kinds of outside call handler has made so far
    posts,           \* number of POST /prompt requests sent
    submission,      \* what queue_workflow did
    history,         \* what get_history did at line 530
    todo,            \* artifacts the collection loop has still to visit
    output_data,     \* handler's output_data
    fetched,         \* artifacts get_image_data was called for
    scratch,         \* scratch files, by artifact: "removed" or "exists"
    wpc,             \* position of process_with_websocket
    execution_done,  \* its local execution_done
    errors,          \* its local errors
    ws,              \* its local ws: 0 is None, else an index into chans
    chans,           \* every WebSocket object the call created, with its state
    attempt,         \* loop variable of the reconnection loop
    consumed,        \* payloads ws.recv() returned, in order
    connects,        \* every connect call: url, delay slept before it, result
    timeouts,        \* WebSocketTimeoutException count
    closures,        \* WebSocketConnectionClosedException count
    wexc,            \* class of the exception that left the call
    ppc,             \* position of process_with_polling
    p_errors,        \* its local errors
    p_ret,           \* the pair it returned
    elapsed,         \* time.time() - start_time at the loop test, in seconds
    iter,            \* its last iteration: the answer to GET /queue (q), the
                     \* engine's answer to GET /history at that moment (h),
                     \* and whether the iteration asked for it
    invocations,     \* the calls of start_comfyui_server under way, by job
    engines,         \* every engine process Popen started: "alive" or "dead"
    raced,           \* TRUE once two calls of start_comfyui_server overlapped
    cpc,             \* position of check_server
    retries,         \* its argument retries
    gets,            \* what each of its requests.get calls did, in order
    c_ret,           \* what it returned
    error_data,      \* the body of a 400 answer to POST /prompt
    q_raised,        \* what queue_workflow raised on it
    engine           \* the engine's side of the event stream

jvars == <<job_input, comfy_process, bucket, probes, input_images, uploaded, upload_errors,
           calls, posts, submission, history, todo, output_data, fetched, scratch>>
hvars == <<lib, hpc, client_id, prompt_id, h_errors, monitors, response, jvars>>
wvars == <<N, wpc, execution_done, errors, ws, chans, attempt, consumed,
           connects, timeouts, closures, wexc>>
pvars == <<ppc, p_errors, p_ret, elapsed, iter>>
xvars == <<invocations, engines, raced, cpc, retries, gets, c_ret, error_data, q_raised, engine>>
vars == <<hvars, wvars, pvars, xvars>>

(* ------------------- process_with_websocket -------------------------- *)
ws_url(cid) == <<"ws://">> \o COMFY_HOST \o <<"/ws?clientId=">> \o cid

json_loads(text) == [ok |-> text.t # "invalid", val |-> text]

Continue == [act |-> "continue", err |-> <<>>, exc |-> "none"]
Finished == [act |-> "done", err |-> <<>>, exc |-> "none"]
Failed(e) == [act |-> "error", err |-> e, exc |-> "none"]
Raise(c) == [act |-> "raise", err |-> <<>>, exc |-> c]

\* error_details without the node id
error_details_no_id(data) ==
    <<"Node Type: ">> \o PyStr(Get(data, "node_type", Null))
    \o <<", ", "Message: ">> \o PyStr(Get(data, "exception_message", Null))

error_details(data) ==
    <<"Node Type: ">> \o PyStr(Get(data, "node_type", Null))
    \o <<", ", "Node ID: ">> \o PyStr(Get(data, "node_id", Null))
    \o <<", ", "Message: ">> \o PyStr(Get(data, "exception_message", Null))

on_status(message) ==
    LET data == Get(message, "data", EmptyDict) IN
    IF data.t # "dict" THEN Raise("AttributeError")
    ELSE LET status_data == Get(data, "status", EmptyDict) IN
         IF status_data.t # "dict" THEN Raise("AttributeError")
         ELSE LET exec_info == Get(status_data, "exec_info", EmptyDict) IN
              IF exec_info.t # "dict" THEN Raise("AttributeError")
              ELSE Continue

\* on_executing without the prompt_id test
on_executing_any(message, pid) ==
    LET data == Get(message, "data", EmptyDict) IN
    IF data.t # "dict" THEN Raise("AttributeError")
    ELSE IF Get(data, "node", Null) = Null THEN Finished ELSE Continue

on_executing(message, pid) ==
    LET data == Get(message, "data", EmptyDict) IN
    IF data.t # "dict" THEN Raise("AttributeError")
    ELSE IF Get(data, "node", Null) = Null /\ Get(data, "prompt_id", Null) = Str(pid)
         THEN Finished
         ELSE Continue

on_execution_error(message, pid) ==
    LET data == Get(message, "data", EmptyDict) IN
    IF data.t # "dict" THEN Raise("AttributeError")
    ELSE IF Get(data, "prompt_id", Null) = Str(pid)
         THEN Failed(<<"Workflow execution error: ">> \o error_details(data))
         ELSE Continue

\* the body of one pass of the receive loop, given what ws.recv() returned
on_recv(out, pid) ==
    IF out.k # "text" THEN Continue
    ELSE LET parsed == json_loads(out.j) IN
         IF ~parsed.ok THEN Continue
         ELSE LET message == parsed.val IN
              IF message.t # "dict" THEN Raise("AttributeError")
              ELSE LET msg_type == Get(message, "type", Null) IN
                   IF msg_type = Str(<<"status">>) THEN on_status(message)
                   ELSE IF msg_type = Str(<<"executing">>) THEN on_executing(message, pid)
                   ELSE IF msg_type = Str(<<"execution_error">>) THEN on_execution_error(message, pid)
                   ELSE Continue

\* a finally clause that closes nothing
ws_finally_none(ch, w) == ch

\* the finally clause: close ws if it is set and connected
ws_finally(ch, w) ==
    IF w # 0 /\ ch[w] = "connected" THEN [ch EXCEPT ![w] = "closed"] ELSE ch

ConnectErrors == {"WebSocketException", "OSError"}
RecvErrors == {"WebSocketException", "OSError"}

\* ws = websocket.WebSocket(); ws.connect(ws_url, timeout=10)
ws_connect ==
    /\ wpc = "connecting"
    /\ ws' = Len(chans) + 1
    /\ \E ok \in BOOLEAN :
        /\ connects' = Append(connects, [url |-> ws_url(client_id), delay |-> 0, ok |-> ok])
        /\ IF ok
           THEN /\ chans' = Append(chans, "connected")
                /\ wpc' = "recv"
                /\ wexc' = wexc
           ELSE /\ chans' = ws_finally(Append(chans, "unconnected"), ws')
                /\ wpc' = "raised"
                /\ \E c \in ConnectErrors : wexc' = c
    /\ UNCHANGED <<N, execution_done, errors, attempt, consumed, timeouts, closures>>
    /\ UNCHANGED <<hvars, pvars>>
    /\ UNCHANGED xvars

\* out = ws.recv() returned a payload; the rest of the loop body runs on it
ws_recv ==
    /\ wpc = "recv"
    /\ chans[ws] = "connected"
    /\ Len(consumed) < MaxMsgs
    /\ \E out \in Payloads :
        LET r == on_recv(out, prompt_id) IN
        /\ consumed' = Append(consumed, out)
        /\ execution_done' = IF r.act = "done" THEN TRUE ELSE execution_done
        /\ errors' = IF r.act = "error" THEN Append(errors, r.err) ELSE errors
        /\ wpc' = CASE r.act = "continue" -> "recv"
                    [] r.act \in {"done", "error"} -> "returned"
                    [] r.act = "raise" -> "raised"
        /\ wexc' = IF r.act = "raise" THEN r.exc ELSE wexc
        /\ chans' = IF r.act = "continue" THEN chans ELSE ws_finally(chans, ws)
    /\ UNCHANGED <<N, ws, attempt, connects, timeouts, closures>>
    /\ UNCHANGED <<hvars, pvars>>
    /\ UNCHANGED xvars

\* a receive timeout handled as a closed channel
ws_recv_timeout_as_closed ==
    /\ wpc = "recv"
    /\ chans[ws] = "connected"
    /\ timeouts < MaxTimeouts
    /\ timeouts' = timeouts + 1
    /\ chans' = [chans EXCEPT ![ws] = "closed"]
    /\ attempt' = 0
    /\ wpc' = IF 0 < N THEN "reconnect" ELSE "recv"
    /\ UNCHANGED <<N, execution_done, errors, ws, consumed, connects, closures, wexc>>
    /\ UNCHANGED <<hvars, pvars>>
    /\ UNCHANGED xvars

\* ws.recv() raised WebSocketTimeoutException
ws_recv_timeout ==
    /\ wpc = "recv"
    /\ chans[ws] = "connected"
    /\ timeouts < MaxTimeouts
    /\ timeouts' = timeouts + 1
    /\ UNCHANGED <<N, wpc, execution_done, errors, ws, chans, attempt, consumed,
                   connects, closures, wexc>>
    /\ UNCHANGED <<hvars, pvars>>
    /\ UNCHANGED xvars

\* a closure that goes on with the count of the closures before it
ws_recv_closed_keeping_count ==
    /\ wpc = "recv"
    /\ closures < MaxClosures
    /\ closures' = closures + 1
    /\ chans' = [chans EXCEPT ![ws] = "closed"]
    /\ attempt' = attempt
    /\ wpc' = IF attempt < N THEN "reconnect" ELSE "recv"
    /\ UNCHANGED <<N, execution_done, errors, ws, consumed, connects, timeouts, wexc>>
    /\ UNCHANGED <<hvars, pvars>>
    /\ UNCHANGED xvars

\* ws.recv() raised WebSocketConnectionClosedException: the channel is closed
\* (it stays closed if it already was) and the reconnection loop is entered
ws_recv_closed ==
    /\ wpc = "recv"
    /\ closures < MaxClosures
    /\ closures' = closures + 1
    /\ chans' = [chans EXCEPT ![ws] = "closed"]
    /\ attempt' = 0
    /\ wpc' = IF 0 < N THEN "reconnect" ELSE "recv"
    /\ UNCHANGED <<N, execution_done, errors, ws, consumed, connects, timeouts, wexc>>
    /\ UNCHANGED <<hvars, pvars>>
    /\ UNCHANGED xvars

\* ws.recv() raised an exception that no except clause of the loop names
ws_recv_error ==
    /\ wpc = "recv"
    /\ chans[ws] = "connected"
    /\ \E c \in RecvErrors : wexc' = c
    /\ wpc' = "raised"
    /\ chans' = ws_finally(chans, ws)
    /\ UNCHANGED <<N, execution_done, errors, ws, attempt, consumed, connects,
                   timeouts, closures>>
    /\ UNCHANGED <<hvars, pvars>>
    /\ UNCHANGED xvars

\* last_attempt off by one
last_attempt_late(a, n) == a = n

\* the attempt is the last one of range(WEBSOCKET_RECONNECT_ATTEMPTS)
last_attempt(a, n) == a = n - 1

\* one pass of the reconnection loop: sleep, new WebSocket, connect
ws_reconnect ==
    /\ wpc = "reconnect"
    /\ attempt < N
    /\ ws' = Len(chans) + 1
    /\ \E ok \in BOOLEAN :
        /\ connects' = Append(connects, [url |-> ws_url(client_id),
                                         delay |-> WEBSOCKET_RECONNECT_DELAY_S, ok |-> ok])
        /\ IF ok
           THEN /\ chans' = Append(chans, "connected")
                /\ wpc' = "recv"
                /\ UNCHANGED <<attempt, wexc>>
           ELSE IF last_attempt(attempt, N)
                THEN /\ chans' = ws_finally(Append(chans, "unconnected"), ws')
                     /\ wpc' = "raised"
                     /\ attempt' = attempt
                     /\ \E c \in ConnectErrors : wexc' = c
                ELSE /\ chans' = Append(chans, "unconnected")
                     /\ attempt' = attempt + 1
                     /\ UNCHANGED <<wpc, wexc>>
    /\ UNCHANGED <<N, execution_done, errors, consumed, timeouts, closures>>
    /\ UNCHANGED <<hvars, pvars>>
    /\ UNCHANGED xvars

(* ---------------------- process_with_polling ------------------------- *)
\* `needle in hay` on Python strings
Contains(hay, needle) ==
    \E i \in 0..(Len(hay) - Len(needle)) : SubSeq(hay, i + 1, i + Len(needle)) = needle

\* a queue entry: the prompt id it carries and the rendering of its other
\* members (number, prompt, extra_data, outputs_to_execute)
Items == { [id |-> P1, body |-> <<"w">>],
           [id |-> P2, body |-> <<"see ">> \o P1] }

\* str(item)
item_str(item) == <<"[0, '">> \o item.id \o <<"', ">> \o item.body \o <<"]">>

ItemLists == UNION { [1..n -> Items] : n \in 0..MaxQueue }

\* what GET /queue followed by .json() gives: an exception or the two lists
QueueFetches ==
    { [ok |-> FALSE, pending |-> <<>>, running |-> <<>>] }
    \cup { [ok |-> TRUE, pending |-> ab[1], running |-> ab[2]] :
                ab \in {x \in ItemLists \X ItemLists : Len(x[1]) + Len(x[2]) <= MaxQueue} }

\* what get_history gives: an exception or a mapping with these keys
HistoryFetches ==
    { [ok |-> FALSE, keys |-> {}] } \cup { [ok |-> TRUE, keys |-> k] : k \in SUBSET PromptIds }

\* a search of the pending list alone
in_queue_pending_only(q, pid) ==
    \E i \in 1..Len(q.pending) : Contains(item_str(q.pending[i]), pid)

\* in_queue = any(prompt_id in str(item) for item in queue_pending + queue_running)
in_queue(q, pid) ==
    LET both == q.pending \o q.running IN
    \E i \in 1..Len(both) : Contains(item_str(both[i]), pid)

timeout_message ==
    <<"Workflow execution timed out after ">> \o <<ToString(PollTimeout)>> \o <<" seconds">>

\* a pass of the loop that a failed fetch ends
poll_iteration_fragile ==
    /\ ppc = "loop"
    /\ elapsed < PollTimeout
    /\ \E q \in QueueFetches, h \in HistoryFetches, d \in 0..MaxFetchDelay :
        IF ~q.ok
        THEN /\ iter' = [q |-> q, h |-> h, asked |-> FALSE]
             /\ ppc' = "returned"
             /\ p_ret' = [done |-> FALSE, errors |-> p_errors]
             /\ elapsed' = elapsed
        ELSE IF in_queue(q, prompt_id)
        THEN /\ iter' = [q |-> q, h |-> h, asked |-> FALSE]
             /\ elapsed' = elapsed + PollSleep + d
             /\ UNCHANGED <<ppc, p_ret>>
        ELSE /\ iter' = [q |-> q, h |-> h, asked |-> TRUE]
             /\ IF h.ok /\ prompt_id \in h.keys
                THEN /\ ppc' = "returned"
                     /\ p_ret' = [done |-> TRUE, errors |-> p_errors]
                     /\ elapsed' = elapsed
                ELSE /\ elapsed' = elapsed + PollSleep + d
                     /\ UNCHANGED <<ppc, p_ret>>
    /\ UNCHANGED p_errors
    /\ UNCHANGED <<hvars, wvars>>
    /\ UNCHANGED xvars

\* one pass of the polling loop
poll_iteration ==
    /\ ppc = "loop"
    /\ elapsed < PollTimeout
    /\ \E q \in QueueFetches, h \in HistoryFetches, d \in 0..MaxFetchDelay :
        IF ~q.ok \/ in_queue(q, prompt_id)
        THEN \* the queue fetch raised, or the prompt is still queued
             /\ iter' = [q |-> q, h |-> h, asked |-> FALSE]
             /\ elapsed' = elapsed + PollSleep + d
             /\ UNCHANGED <<ppc, p_ret>>
        ELSE \* history = get_history(prompt_id)
             /\ iter' = [q |-> q, h |-> h, asked |-> TRUE]
             /\ IF h.ok /\ prompt_id \in h.keys
                THEN /\ ppc' = "returned"
                     /\ p_ret' = [done |-> TRUE, errors |-> p_errors]
                     /\ elapsed' = elapsed
                ELSE /\ elapsed' = elapsed + PollSleep + d
                     /\ UNCHANGED <<ppc, p_ret>>
    /\ UNCHANGED p_errors
    /\ UNCHANGED <<hvars, wvars>>
    /\ UNCHANGED xvars

\* the timeout returned without a message
poll_timeout_silent ==
    /\ ppc = "loop"
    /\ ~(elapsed < PollTimeout)
    /\ p_ret' = [done |-> FALSE, errors |-> p_errors]
    /\ ppc' = "returned"
    /\ UNCHANGED <<p_errors, elapsed, iter>>
    /\ UNCHANGED <<hvars, wvars>>
    /\ UNCHANGED xvars

\* the loop test fails: the timeout is reported
poll_timeout ==
    /\ ppc = "loop"
    /\ ~(elapsed < PollTimeout)
    /\ p_errors' = Append(p_errors, timeout_message)
    /\ p_ret' = [done |-> FALSE, errors |-> p_errors']
    /\ ppc' = "returned"
    /\ UNCHANGED <<elapsed, iter>>
    /\ UNCHANGED <<hvars, wvars>>
    /\ UNCHANGED xvars

(* ------------------------------ handler -------------------------------- *)
ClientIds == {<<"uuid4">>}

\* what queue_workflow does: raise, or return the engine's JSON object
QueueResults ==
    { [exc |-> "ValueError", val |-> Str(<<"Workflow validation failed">>)],
      [exc |-> "RequestException", val |-> Str(<<"503 Server Error">>)],
      [exc |-> "RequestException", val |-> Str(<<"Connection refused">>)],
      [exc |-> "none", val |-> EmptyDict],
      [exc |-> "none", val |-> Dict([prompt_id |-> Str(<<>>)])] }
    \cup { [exc |-> "none", val |-> Dict([prompt_id |-> Str(p)])] : p \in PromptIds }

\* the except clauses that close handler's try block, for an exception of
\* class c whose str() is m
handler_except(c, m) ==
    CASE c = "ValueError" -> [error |-> m]
      [] c = "RequestException" -> [error |-> <<"HTTP communication error: ">> \o m]
      [] OTHER -> [error |-> <<"Unexpected error: ">> \o m]

missing_prompt_id == <<"Missing 'prompt_id' in queue response">>
no_outcome == <<"Workflow monitoring exited without completion or error">>

(* ------------------------------ job input ------------------------------ *)
\* a list with its members
ListOf(items) == [t |-> "list", items |-> items]

\* a str holding JSON text, by what json.loads makes of it
JsonStr(j) == [t |-> "jsonstr", j |-> j]

Workflow == Dict([n3 |-> Dict([class_type |-> Str(<<"KSampler">>)])])

B64Good == <<"QUJD">>
B64Bad == <<"QUJ">>
DataUri == <<"data:image/png;base64", ",">>

Image(data) == Dict([name |-> Str(<<"in.png">>), image |-> Str(data)])
NoImageKey == Dict([name |-> Str(<<"in.png">>)])
NoNameKey == Dict([image |-> Str(B64Good)])

ImageLists == UNION { [1..n -> {Image(DataUri \o B64Good), Image(B64Bad)}] : n \in 0..MaxImages }

WithImages(images) == Dict([workflow |-> Workflow, images |-> images])

JobInputs ==
    { Null,
      JsonStr(InvalidJson),
      JsonStr(Dict([workflow |-> Workflow])),
      JsonStr(List),
      List,
      EmptyDict,
      Dict([workflow |-> Null]),
      Dict([workflow |-> Str(<<"w">>)]),
      Dict([workflow |-> EmptyDict]),
      Dict([workflow |-> Workflow]),
      WithImages(Str(<<"i">>)),
      WithImages(ListOf(<<Str(<<"i">>)>>)),
      WithImages(ListOf(<<NoImageKey>>)),
      WithImages(ListOf(<<Image(B64Good), NoNameKey>>)) }
    \cup { WithImages(ListOf(l)) : l \in ImageLists }

(* ---------------------------- validate_input --------------------------- *)
Rejected(m) == [exc |-> "none", err |-> m, images |-> Null]
Accepted(images) == [exc |-> "none", err |-> <<>>, images |-> images]

\* the loop over images testing nothing
validate_images_lax(items) == <<>>

\* the loop over images: the message for the first entry that fails a test
RECURSIVE validate_images(_)
validate_images(items) ==
    IF items = <<>> THEN <<>>
    ELSE LET img == Head(items) IN
         IF img.t # "dict" THEN <<"Each image must be an object">>
         ELSE IF "name" \notin DOMAIN img.d \/ "image" \notin DOMAIN img.d
              THEN <<"'images' must contain objects with 'name' and 'image' keys">>
              ELSE validate_images(Tail(items))

validate_input(input) ==
    IF input = Null THEN Rejected(<<"Please provide input">>)
    ELSE IF input.t = "jsonstr" /\ input.j = InvalidJson
         THEN Rejected(<<"Invalid JSON format in input">>)
    ELSE LET parsed == IF input.t = "jsonstr" THEN input.j ELSE input IN
         IF parsed.t # "dict" THEN [exc |-> "AttributeError", err |-> <<>>, images |-> Null]
         ELSE LET workflow == Get(parsed, "workflow", Null) IN
              IF workflow = Null THEN Rejected(<<"Missing 'workflow' parameter">>)
              ELSE IF workflow.t # "dict" THEN Rejected(<<"'workflow' must be a JSON object">>)
              ELSE IF DOMAIN workflow.d = {} THEN Rejected(<<"'workflow' cannot be empty">>)
              ELSE LET images == Get(parsed, "images", Null) IN
                   IF images = Null THEN Accepted(images)
                   ELSE IF images.t # "list" THEN Rejected(<<"'images' must be a list">>)
                   ELSE IF validate_images(images.items) # <<>>
                        THEN Rejected(validate_images(images.items))
                        ELSE Accepted(images)

(* -------------------- handler, up to the submission -------------------- *)
\* job_input = job.get("input", {}); validate_input(job_input)
handler_validate ==
    /\ hpc = "validate"
    /\ LET v == validate_input(job_input) IN
       IF v.exc # "none"
       THEN /\ hpc' = "raised"
            /\ UNCHANGED <<response, input_images>>
       ELSE IF v.err # <<>>
       THEN /\ response' = [error |-> v.err]
            /\ hpc' = "responded"
            /\ UNCHANGED input_images
       ELSE /\ input_images' = v.images
            /\ hpc' = "start"
            /\ UNCHANGED response
    /\ UNCHANGED <<lib, client_id, prompt_id, h_errors, monitors>>
    /\ UNCHANGED <<job_input, comfy_process, bucket, probes, uploaded, upload_errors, calls,
                   posts, submission, history, todo, output_data, fetched, scratch>>
    /\ UNCHANGED <<wvars, pvars>>
    /\ UNCHANGED xvars

failed_to_start(m) == [error |-> <<"Failed to start ComfyUI server: ">> \o m]
not_reachable == [error |-> <<"ComfyUI server (">> \o COMFY_HOST \o <<") not reachable">>]

\* try: start_comfyui_server() except Exception
handler_start ==
    /\ hpc = "start"
    /\ IF comfy_process = "running"
       THEN /\ hpc' = "check"
            /\ UNCHANGED <<comfy_process, calls, response, probes>>
       ELSE \E o \in {"popen_error", "unreachable", "ready"} :
            CASE o = "popen_error" ->
                    /\ calls' = calls \cup {"Popen"}
                    /\ response' = failed_to_start(<<"OSError">>)
                    /\ hpc' = "responded"
                    /\ UNCHANGED <<comfy_process, probes>>
              [] o = "unreachable" ->
                    /\ calls' = calls \cup {"Popen", "GET /"}
                    /\ comfy_process' \in {"running", "exited"}
                    /\ probes' = Append(probes, FALSE)
                    /\ response' = failed_to_start(<<"ComfyUI server failed to start">>)
                    /\ hpc' = "responded"
              [] OTHER ->
                    /\ calls' = calls \cup {"Popen", "GET /"}
                    /\ comfy_process' = "running"
                    /\ probes' = Append(probes, TRUE)
                    /\ hpc' = "check"
                    /\ UNCHANGED response
    /\ UNCHANGED <<lib, client_id, prompt_id, h_errors, monitors>>
    /\ UNCHANGED <<job_input, bucket, input_images, uploaded, upload_errors,
                   posts, submission, history, todo, output_data, fetched, scratch>>
    /\ UNCHANGED <<wvars, pvars>>
    /\ UNCHANGED xvars

\* if not check_server(...): return {"error": ...}
handler_check ==
    /\ hpc = "check"
    /\ calls' = calls \cup {"GET /"}
    /\ \E ok \in BOOLEAN :
        /\ probes' = Append(probes, ok)
        /\ IF ok
           THEN /\ hpc' = "upload"
                /\ UNCHANGED response
           ELSE /\ response' = not_reachable
                /\ hpc' = "responded"
    /\ UNCHANGED <<lib, client_id, prompt_id, h_errors, monitors>>
    /\ UNCHANGED <<job_input, comfy_process, bucket, input_images, uploaded, upload_errors,
                   posts, submission, history, todo, output_data, fetched, scratch>>
    /\ UNCHANGED <<wvars, pvars>>
    /\ UNCHANGED xvars

\* `if images:` on None or a list
Truthy(images) == images # Null /\ images.items # <<>>

\* image_data.split(",", 1)[1] when "," is in image_data
RECURSIVE after_comma(_)
after_comma(s) ==
    IF s = <<>> THEN <<>>
    ELSE IF Head(s) = "," THEN Tail(s) ELSE after_comma(Tail(s))

base64_data(image_data) ==
    IF \E i \in 1..Len(image_data) : image_data[i] = "," THEN after_comma(image_data)
    ELSE image_data

\* base64.b64decode does not raise binascii.Error
b64decode_ok(s) == s = B64Good

\* one pass of the loop of upload_images
upload_image ==
    /\ hpc = "upload"
    /\ Truthy(input_images)
    /\ uploaded < Len(input_images.items)
    /\ uploaded' = uploaded + 1
    /\ LET image == input_images.items[uploaded + 1]
           name == image.d["name"].s
       IN IF ~b64decode_ok(base64_data(image.d["image"].s))
          THEN /\ upload_errors' = Append(upload_errors,
                        <<"Error decoding base64 for ">> \o name \o <<": ", "Incorrect padding">>)
               /\ UNCHANGED calls
          ELSE /\ calls' = calls \cup {"POST /upload/image"}
               /\ \E ok \in BOOLEAN :
                    upload_errors' =
                        IF ok THEN upload_errors
                        ELSE Append(upload_errors,
                                <<"Error uploading ">> \o name \o <<": ", "RequestException">>)
    /\ UNCHANGED <<lib, hpc, client_id, prompt_id, h_errors, monitors, response>>
    /\ UNCHANGED <<job_input, comfy_process, bucket, probes, input_images,
                   posts, submission, history, todo, output_data, fetched, scratch>>
    /\ UNCHANGED <<wvars, pvars>>
    /\ UNCHANGED xvars

upload_failed(details) == [error |-> <<"Failed to upload input images">>, details |-> details]

\* the status of upload_images not tested
handler_uploaded_anyway ==
    /\ hpc = "upload"
    /\ IF Truthy(input_images) THEN uploaded = Len(input_images.items) ELSE TRUE
    /\ \E cid \in ClientIds : client_id' = cid
    /\ hpc' = "queue"
    /\ UNCHANGED <<lib, prompt_id, h_errors, monitors, response>>
    /\ UNCHANGED jvars
    /\ UNCHANGED <<wvars, pvars>>
    /\ UNCHANGED xvars

\* upload_images has returned: the test of its status, then client_id
handler_uploaded ==
    /\ hpc = "upload"
    /\ IF Truthy(input_images) THEN uploaded = Len(input_images.items) ELSE TRUE
    /\ IF upload_errors # <<>>
       THEN /\ response' = upload_failed(upload_errors)
            /\ hpc' = "responded"
            /\ UNCHANGED client_id
       ELSE /\ \E cid \in ClientIds : client_id' = cid
            /\ hpc' = "queue"
            /\ UNCHANGED response
    /\ UNCHANGED <<lib, prompt_id, h_errors, monitors>>
    /\ UNCHANGED jvars
    /\ UNCHANGED <<wvars, pvars>>
    /\ UNCHANGED xvars

(* ------------------ handler, submission and monitoring ----------------- *)
\* the prompt_id not tested
handler_queue_lenient ==
    /\ hpc = "queue"
    /\ calls' = calls \cup {"POST /prompt"}
    /\ posts' = posts + 1
    /\ \E r \in QueueResults :
        /\ submission' = r
        /\ IF r.exc # "none"
           THEN /\ response' = handler_except(r.exc, r.val.s)
                /\ hpc' = "responded"
                /\ UNCHANGED prompt_id
           ELSE /\ prompt_id' = PyStr(Get(r.val, "prompt_id", Null))
                /\ hpc' = "monitor"
                /\ UNCHANGED response
    /\ UNCHANGED <<lib, client_id, h_errors, monitors>>
    /\ UNCHANGED <<job_input, comfy_process, bucket, input_images, uploaded, upload_errors, probes,
                   history, todo, output_data, fetched, scratch>>
    /\ UNCHANGED <<wvars, pvars>>
    /\ UNCHANGED xvars

\* queued = queue_workflow(...); prompt_id = queued.get("prompt_id")
handler_queue ==
    /\ hpc = "queue"
    /\ calls' = calls \cup {"POST /prompt"}
    /\ posts' = posts + 1
    /\ \E r \in QueueResults :
        /\ submission' = r
        /\ IF r.exc # "none"
           THEN /\ response' = handler_except(r.exc, r.val.s)
                /\ hpc' = "responded"
                /\ UNCHANGED prompt_id
           ELSE LET pid == Get(r.val, "prompt_id", Null) IN
                IF pid = Null \/ pid = Str(<<>>)
                THEN /\ response' = handler_except("ValueError", missing_prompt_id)
                     /\ hpc' = "responded"
                     /\ UNCHANGED prompt_id
                ELSE /\ prompt_id' = pid.s
                     /\ hpc' = "monitor"
                     /\ UNCHANGED response
    /\ UNCHANGED <<lib, client_id, h_errors, monitors>>
    /\ UNCHANGED <<job_input, comfy_process, bucket, input_images, uploaded, upload_errors, probes,
                   history, todo, output_data, fetched, scratch>>
    /\ UNCHANGED <<wvars, pvars>>
    /\ UNCHANGED xvars

\* a fallback on every exception
falls_back_any(c) == TRUE

\* the exception class makes handler fall back to process_with_polling
falls_back(c) == c = "ImportError"

\* try: import websocket; process_with_websocket(...) -- the call
handler_monitor ==
    /\ hpc = "monitor"
    /\ IF lib
       THEN /\ monitors' = Append(monitors, "websocket")
            /\ wpc' = "connecting"
            /\ hpc' = "in_websocket"
            /\ UNCHANGED ppc
       ELSE /\ falls_back("ImportError")
            /\ monitors' = Append(monitors, "polling")
            /\ ppc' = "loop"
            /\ hpc' = "in_polling"
            /\ UNCHANGED wpc
    /\ UNCHANGED <<lib, client_id, prompt_id, h_errors, response>>
    /\ UNCHANGED <<N, execution_done, errors, ws, chans, attempt, consumed,
                   connects, timeouts, closures, wexc>>
    /\ UNCHANGED <<p_errors, p_ret, elapsed, iter>>
    /\ UNCHANGED jvars
    /\ UNCHANGED xvars

\* errors.extend(exec_errors) and the guard that follows it
after_monitor(done, exec_errors) ==
    /\ h_errors' = h_errors \o exec_errors
    /\ IF ~done /\ h_errors' = <<>>
       THEN /\ response' = handler_except("ValueError", no_outcome)
            /\ hpc' = "responded"
       ELSE /\ hpc' = "history"
            /\ UNCHANGED response

\* process_with_websocket returned
handler_websocket_returned ==
    /\ hpc = "in_websocket"
    /\ wpc = "returned"
    /\ after_monitor(execution_done, errors)
    /\ UNCHANGED <<lib, client_id, prompt_id, monitors>>
    /\ UNCHANGED <<wvars, pvars>>
    /\ UNCHANGED jvars
    /\ UNCHANGED xvars

\* process_with_websocket raised
handler_websocket_raised ==
    /\ hpc = "in_websocket"
    /\ wpc = "raised"
    /\ IF falls_back(wexc)
       THEN /\ monitors' = Append(monitors, "polling")
            /\ ppc' = "loop"
            /\ hpc' = "in_polling"
            /\ UNCHANGED response
       ELSE /\ response' = handler_except(wexc, <<wexc>>)
            /\ hpc' = "responded"
            /\ UNCHANGED <<monitors, ppc>>
    /\ UNCHANGED <<lib, client_id, prompt_id, h_errors>>
    /\ UNCHANGED <<wvars, p_errors, p_ret, elapsed, iter>>
    /\ UNCHANGED jvars
    /\ UNCHANGED xvars

\* process_with_polling returned
handler_polling_returned ==
    /\ hpc = "in_polling"
    /\ ppc = "returned"
    /\ after_monitor(p_ret.done, p_ret.errors)
    /\ UNCHANGED <<lib, client_id, prompt_id, monitors>>
    /\ UNCHANGED <<wvars, pvars>>
    /\ UNCHANGED jvars
    /\ UNCHANGED xvars

\* what the receive loop does with the payloads of seq, taken in order
RECURSIVE Run(_, _)
Run(seq, pid) ==
    IF seq = <<>> THEN Continue
    ELSE LET r == on_recv(Head(seq), pid) IN
         IF r.act = "continue" THEN Run(Tail(seq), pid) ELSE r

(* ------------- handler, the monitor call taken as one step ------------- *)
PayloadSeqs == UNION { [1..n -> Payloads] : n \in 0..MaxMsgs }

Returned(done, errs) == [exc |-> "none", done |-> done, errors |-> errs]
Raised(c) == [exc |-> c, done |-> FALSE, errors |-> <<>>]

\* the ways process_with_websocket ends: a connect or a receive fails for
\* good, or the payloads received end the loop
WebsocketOutcomes(pid) ==
    { Raised(c) : c \in ConnectErrors \cup RecvErrors }
    \cup { LET r == Run(seq, pid) IN
           CASE r.act = "done" -> Returned(TRUE, <<>>)
             [] r.act = "error" -> Returned(FALSE, <<r.err>>)
             [] OTHER -> Raised(r.exc)
           : seq \in {s \in PayloadSeqs : Run(s, pid).act # "continue"} }

\* the ways process_with_polling ends
PollingOutcomes == { Returned(TRUE, <<>>), Returned(FALSE, <<timeout_message>>) }

\* every end of a monitor that runs step by step is one of these outcomes
OutcomesCoverMonitors ==
    /\ wpc = "returned" => Returned(execution_done, errors) \in WebsocketOutcomes(prompt_id)
    /\ wpc = "raised" => Raised(wexc) \in WebsocketOutcomes(prompt_id)
    /\ ppc = "returned" => Returned(p_ret.done, p_ret.errors) \in PollingOutcomes

\* try: import websocket; process_with_websocket(...) except ImportError:
\* process_with_polling(...), from the call to what handler does with its end
handler_monitored ==
    /\ hpc = "monitor"
    /\ IF lib
       THEN /\ monitors' = Append(monitors, "websocket")
            /\ calls' = calls \cup {"WS /ws"}
            /\ \E o \in WebsocketOutcomes(prompt_id) :
                IF o.exc # "none"
                THEN /\ ~falls_back(o.exc)
                     /\ response' = handler_except(o.exc, <<o.exc>>)
                     /\ hpc' = "responded"
                     /\ UNCHANGED h_errors
                ELSE after_monitor(o.done, o.errors)
       ELSE /\ falls_back("ImportError")
            /\ monitors' = Append(monitors, "polling")
            /\ calls' = calls \cup {"GET /queue"}
            /\ \E o \in PollingOutcomes : after_monitor(o.done, o.errors)
    /\ UNCHANGED <<lib, client_id, prompt_id>>
    /\ UNCHANGED <<job_input, comfy_process, bucket, input_images, uploaded, upload_errors, probes,
                   posts, submission, history, todo, output_data, fetched, scratch>>
    /\ UNCHANGED <<wvars, pvars>>
    /\ UNCHANGED xvars

(* ------------------- handler, the manifest lookup ---------------------- *)
ImageInfo(name, type) ==
    Dict([filename |-> Str(name), subfolder |-> Str(<<>>), type |-> Str(type)])

ImageInfos ==
    { ImageInfo(<<"o.png">>, <<"output">>),
      ImageInfo(<<"t.png">>, <<"temp">>),
      Dict([type |-> Str(<<"output">>)]) }

\* the value of one node in "outputs": with or without an "images" list
NodeOutputs ==
    { Dict([text |-> List]) }
    \cup { Dict([images |-> ListOf(l)]) :
                l \in UNION { [1..n -> ImageInfos] : n \in 1..MaxArtifacts } }

\* for node_id, node_output in outputs.items(): if "images" in node_output:
\* for image_info in node_output["images"] -- the entries in the order the
\* loops meet them; outs is the sequence of the values of outputs, the node
\* id of the i-th being i
RECURSIVE Flatten(_, _)
Flatten(outs, i) ==
    IF i > Len(outs) THEN <<>>
    ELSE (IF "images" \in DOMAIN outs[i].d
          THEN [j \in 1..Len(outs[i].d["images"].items) |->
                    [node |-> i, info |-> outs[i].d["images"].items[j]]]
          ELSE <<>>)
         \o Flatten(outs, i + 1)

OutputsValues ==
    { outs \in UNION { [1..n -> NodeOutputs] : n \in 0..MaxArtifacts } :
        Len(Flatten(outs, 1)) <= MaxArtifacts }

\* history[prompt_id]
HistoryEntries == { EmptyDict } \cup { Dict([outputs |-> Dict(outs)]) : outs \in OutputsValues }

\* what get_history does: raise, or return the engine's JSON object
HistoryResults(pid) ==
    { [exc |-> "RequestException", msg |-> <<"500 Server Error">>, val |-> Null],
      [exc |-> "ValueError", msg |-> <<"Expecting value">>, val |-> Null],
      [exc |-> "none", msg |-> <<>>, val |-> EmptyDict] }
    \cup { [exc |-> "none", msg |-> <<>>, val |-> Dict(p :> EmptyDict)] : p \in PromptIds \ {pid} }
    \cup { [exc |-> "none", msg |-> <<>>, val |-> Dict(pid :> e)] : e \in HistoryEntries }

not_found(pid) == <<"Prompt ID ">> \o pid \o <<" not found in history">>
job_failed == <<"Job processing failed">>
no_outputs == <<"Workflow produced no outputs">>

\* the test `prompt_id not in history` left out
handler_history_trusting ==
    /\ hpc = "history"
    /\ calls' = calls \cup {"GET /history"}
    /\ \E r \in HistoryResults(prompt_id) :
        /\ history' = r
        /\ IF r.exc # "none"
           THEN /\ response' = handler_except(r.exc, r.msg)
                /\ hpc' = "responded"
                /\ UNCHANGED <<h_errors, todo>>
           ELSE LET prompt_history == Get(r.val, prompt_id, EmptyDict)
                    outputs == Get(prompt_history, "outputs", EmptyDict)
                IN /\ h_errors' = IF outputs.d = <<>> /\ h_errors = <<>>
                                  THEN Append(h_errors, no_outputs)
                                  ELSE h_errors
                   /\ todo' = Flatten(outputs.d, 1)
                   /\ hpc' = "collect"
                   /\ UNCHANGED response
    /\ UNCHANGED <<lib, client_id, prompt_id, monitors>>
    /\ UNCHANGED <<job_input, comfy_process, bucket, input_images, uploaded, upload_errors, probes,
                   posts, submission, output_data, fetched, scratch>>
    /\ UNCHANGED <<wvars, pvars>>
    /\ UNCHANGED xvars

\* empty outputs recorded as no error (lines 543-546 left out)
handler_history_silent ==
    /\ hpc = "history"
    /\ calls' = calls \cup {"GET /history"}
    /\ \E r \in HistoryResults(prompt_id) :
        /\ history' = r
        /\ IF r.exc # "none"
           THEN /\ response' = handler_except(r.exc, r.msg)
                /\ hpc' = "responded"
                /\ UNCHANGED <<h_errors, todo>>
           ELSE IF prompt_id \notin DOMAIN r.val.d
           THEN /\ IF h_errors = <<>>
                   THEN /\ response' = [error |-> not_found(prompt_id)]
                        /\ UNCHANGED h_errors
                   ELSE /\ h_errors' = Append(h_errors, not_found(prompt_id))
                        /\ response' = [error |-> job_failed, details |-> h_errors']
                /\ hpc' = "responded"
                /\ UNCHANGED todo
           ELSE LET prompt_history == Get(r.val, prompt_id, EmptyDict)
                    outputs == Get(prompt_history, "outputs", EmptyDict)
                IN /\ UNCHANGED h_errors
                   /\ todo' = Flatten(outputs.d, 1)
                   /\ hpc' = "collect"
                   /\ UNCHANGED response
    /\ UNCHANGED <<lib, client_id, prompt_id, monitors>>
    /\ UNCHANGED <<job_input, comfy_process, bucket, input_images, uploaded, upload_errors, probes,
                   posts, submission, output_data, fetched, scratch>>
    /\ UNCHANGED <<wvars, pvars>>
    /\ UNCHANGED xvars

\* history = get_history(prompt_id), down to the collection loop
handler_history ==
    /\ hpc = "history"
    /\ calls' = calls \cup {"GET /history"}
    /\ \E r \in HistoryResults(prompt_id) :
        /\ history' = r
        /\ IF r.exc # "none"
           THEN /\ response' = handler_except(r.exc, r.msg)
                /\ hpc' = "responded"
                /\ UNCHANGED <<h_errors, todo>>
           ELSE IF prompt_id \notin DOMAIN r.val.d
           THEN /\ IF h_errors = <<>>
                   THEN /\ response' = [error |-> not_found(prompt_id)]
                        /\ UNCHANGED h_errors
                   ELSE /\ h_errors' = Append(h_errors, not_found(prompt_id))
                        /\ response' = [error |-> job_failed, details |-> h_errors']
                /\ hpc' = "responded"
                /\ UNCHANGED todo
           ELSE LET prompt_history == Get(r.val, prompt_id, EmptyDict)
                    outputs == Get(prompt_history, "outputs", EmptyDict)
                IN /\ h_errors' = IF outputs.d = <<>> /\ h_errors = <<>>
                                  THEN Append(h_errors, no_outputs)
                                  ELSE h_errors
                   /\ todo' = Flatten(outputs.d, 1)
                   /\ hpc' = "collect"
                   /\ UNCHANGED response
    /\ UNCHANGED <<lib, client_id, prompt_id, monitors>>
    /\ UNCHANGED <<job_input, comfy_process, bucket, input_images, uploaded, upload_errors, probes,
                   posts, submission, output_data, fetched, scratch>>
    /\ UNCHANGED <<wvars, pvars>>
    /\ UNCHANGED xvars

(* ------------------- handler, the collection loop ---------------------- *)
\* outputs, as handler_history read it
Outputs ==
    IF history.exc = "none" /\ history.val # Null /\ prompt_id \in DOMAIN history.val.d
    THEN Get(Get(history.val, prompt_id, EmptyDict), "outputs", EmptyDict).d
    ELSE <<>>

\* the image entries of outputs in the order the loops meet them
Artifacts == Flatten(Outputs, 1)

\* `not filename`
Falsy(v) == v = Null \/ v = Str(<<>>)

\* what get_image_data returns: the bytes of the file (which may be none at
\* all), or None after any exception
ImageBytes(name) == <<"bytes of ">> \o name
FetchResults(name) == { [bytes |-> ImageBytes(name)], [bytes |-> <<>>], Null }

b64encode(bytes) == <<"b64(">> \o bytes \o <<")">>
s3_url(name) == <<"https://bucket/">> \o name

\* how far the S3 branch gets: the import fails, the scratch file is made
\* and the write fails, the upload raises, or all of it succeeds
S3Results == {"import_error", "write_error", "upload_error", "ok"}

\* no entry is skipped
skipped_never(img_type) == FALSE

\* if img_type == "temp": continue
skipped(img_type) == img_type = Str(<<"temp">>)

\* a pass that drops an artifact whose bytes it cannot fetch
collect_artifact_dropping ==
    /\ hpc = "collect"
    /\ todo # <<>>
    /\ todo' = Tail(todo)
    /\ LET node_id == Head(todo).node
           image_info == Head(todo).info
           idx == Len(Artifacts) - Len(todo) + 1
           filename == Get(image_info, "filename", Null)
           img_type == Get(image_info, "type", Null)
       IN IF skipped(img_type)
          THEN UNCHANGED <<h_errors, output_data, fetched, scratch, calls>>
          ELSE IF Falsy(filename)
          THEN /\ h_errors' = Append(h_errors, <<"Missing filename in node ", ToString(node_id)>>)
               /\ UNCHANGED <<output_data, fetched, scratch, calls>>
          ELSE \E image_bytes \in FetchResults(filename.s) :
               /\ fetched' = fetched \cup {idx}
               /\ IF image_bytes = Null \/ image_bytes.bytes = <<>>
                  THEN /\ calls' = calls \cup {"GET /view"}
                       /\ UNCHANGED <<h_errors, output_data, scratch>>
                  ELSE IF bucket
                  THEN \E r \in S3Results :
                       /\ calls' = calls \cup {"GET /view"}
                                    \cup (IF r \in {"upload_error", "ok"}
                                          THEN {"rp_upload.upload_image"} ELSE {})
                       /\ scratch' =
                            IF r = "import_error" THEN scratch
                            ELSE (idx :> (IF r = "ok" THEN "removed" ELSE "exists")) @@ scratch
                       /\ IF r = "ok"
                          THEN /\ output_data' = Append(output_data,
                                    [filename |-> filename.s, type |-> <<"s3_url">>,
                                     data |-> s3_url(filename.s)])
                               /\ UNCHANGED h_errors
                          ELSE /\ h_errors' = Append(h_errors, <<"S3 upload failed: ", r>>)
                               /\ UNCHANGED output_data
                  ELSE \E encoded \in BOOLEAN :
                       /\ calls' = calls \cup {"GET /view"}
                       /\ IF encoded
                          THEN /\ output_data' = Append(output_data,
                                    [filename |-> filename.s, type |-> <<"base64">>,
                                     data |-> b64encode(image_bytes.bytes)])
                               /\ UNCHANGED h_errors
                          ELSE /\ h_errors' = Append(h_errors,
                                    <<"Base64 encoding failed: ", "MemoryError">>)
                               /\ UNCHANGED output_data
                       /\ UNCHANGED scratch
    /\ UNCHANGED <<lib, hpc, client_id, prompt_id, monitors, response>>
    /\ UNCHANGED <<job_input, comfy_process, bucket, input_images, uploaded, upload_errors, probes,
                   posts, submission, history>>
    /\ UNCHANGED <<wvars, pvars>>
    /\ UNCHANGED xvars

\* one pass of the inner loop of the collection
collect_artifact ==
    /\ hpc = "collect"
    /\ todo # <<>>
    /\ todo' = Tail(todo)
    /\ LET node_id == Head(todo).node
           image_info == Head(todo).info
           idx == Len(Artifacts) - Len(todo) + 1
           filename == Get(image_info, "filename", Null)
           img_type == Get(image_info, "type", Null)
       IN IF skipped(img_type)
          THEN UNCHANGED <<h_errors, output_data, fetched, scratch, calls>>
          ELSE IF Falsy(filename)
          THEN /\ h_errors' = Append(h_errors, <<"Missing filename in node ", ToString(node_id)>>)
               /\ UNCHANGED <<output_data, fetched, scratch, calls>>
          ELSE \E image_bytes \in FetchResults(filename.s) :
               /\ fetched' = fetched \cup {idx}
               /\ IF image_bytes = Null \/ image_bytes.bytes = <<>>
                  THEN /\ h_errors' = Append(h_errors,
                                <<"Failed to fetch image data for ">> \o filename.s)
                       /\ calls' = calls \cup {"GET /view"}
                       /\ UNCHANGED <<output_data, scratch>>
                  ELSE IF bucket
                  THEN \E r \in S3Results :
                       /\ calls' = calls \cup {"GET /view"}
                                    \cup (IF r \in {"upload_error", "ok"}
                                          THEN {"rp_upload.upload_image"} ELSE {})
                       /\ scratch' =
                            IF r = "import_error" THEN scratch
                            ELSE (idx :> (IF r = "ok" THEN "removed" ELSE "exists")) @@ scratch
                       /\ IF r = "ok"
                          THEN /\ output_data' = Append(output_data,
                                    [filename |-> filename.s, type |-> <<"s3_url">>,
                                     data |-> s3_url(filename.s)])
                               /\ UNCHANGED h_errors
                          ELSE /\ h_errors' = Append(h_errors, <<"S3 upload failed: ", r>>)
                               /\ UNCHANGED output_data
                  ELSE \E encoded \in BOOLEAN :
                       /\ calls' = calls \cup {"GET /view"}
                       /\ IF encoded
                          THEN /\ output_data' = Append(output_data,
                                    [filename |-> filename.s, type |-> <<"base64">>,
                                     data |-> b64encode(image_bytes.bytes)])
                               /\ UNCHANGED h_errors
                          ELSE /\ h_errors' = Append(h_errors,
                                    <<"Base64 encoding failed: ", "MemoryError">>)
                               /\ UNCHANGED output_data
                       /\ UNCHANGED scratch
    /\ UNCHANGED <<lib, hpc, client_id, prompt_id, monitors, response>>
    /\ UNCHANGED <<job_input, comfy_process, bucket, input_images, uploaded, upload_errors, probes,
                   posts, submission, history>>
    /\ UNCHANGED <<wvars, pvars>>
    /\ UNCHANGED xvars

(* ------------------- handler, the final result ------------------------- *)
\* a result without the test of lines 630-632: errors without any artifact
\* are returned as `errors`
build_result_without_hard_failure(out, errs) ==
    IF out = <<>> /\ errs # <<>> THEN [errors |-> errs]
    ELSE IF out = <<>> THEN [status |-> <<"success_no_images">>, images |-> <<>>]
    ELSE IF errs # <<>> THEN [images |-> out, errors |-> errs]
    ELSE [images |-> out]

\* a result that carries `errors` even when there is none
build_result_always_errors(out, errs) ==
    IF out = <<>> /\ errs # <<>> THEN [error |-> job_failed, details |-> errs]
    ELSE IF out = <<>> THEN [status |-> <<"success_no_images">>, images |-> <<>>]
    ELSE [images |-> out, errors |-> errs]

\* a result that any error turns into a failure
build_result_strict(out, errs) ==
    IF errs # <<>> THEN [error |-> job_failed, details |-> errs]
    ELSE IF out = <<>> THEN [status |-> <<"success_no_images">>, images |-> <<>>]
    ELSE [images |-> out]

\* a result that counts no artifact as a failure
build_result_needs_images(out, errs) ==
    IF out = <<>> THEN [error |-> job_failed, details |-> errs]
    ELSE IF errs # <<>> THEN [images |-> out, errors |-> errs]
    ELSE [images |-> out]

build_result(out, errs) ==
    IF out = <<>> /\ errs # <<>> THEN [error |-> job_failed, details |-> errs]
    ELSE IF out = <<>> THEN [status |-> <<"success_no_images">>, images |-> <<>>]
    ELSE IF errs # <<>> THEN [images |-> out, errors |-> errs]
    ELSE [images |-> out]

\* the collection loop is over: build the final result and return it
handler_build ==
    /\ hpc = "collect"
    /\ todo = <<>>
    /\ response' = build_result(output_data, h_errors)
    /\ hpc' = "responded"
    /\ UNCHANGED <<lib, client_id, prompt_id, h_errors, monitors>>
    /\ UNCHANGED jvars
    /\ UNCHANGED <<wvars, pvars>>
    /\ UNCHANGED xvars

(* ------------- start_comfyui_server, across the jobs of a worker ------- *)
MaxJobs == 2          \* handler invocations the harness has under way at once
MaxStarts == 3        \* engine processes one worker starts

hrest == <<lib, hpc, client_id, prompt_id, h_errors, monitors, response>>
jrest == <<job_input, bucket, probes, input_images, uploaded, upload_errors,
           calls, posts, submission, history, todo, output_data, fetched, scratch>>
kvars == <<invocations, engines, raced>>
cvars == <<cpc, retries, gets, c_ret>>
svars == <<error_data, q_raised>>

\* a handle that is never found running
already_running_never(process) == FALSE

\* comfy_process is not None and comfy_process.poll() is None
already_running(process) == process = "running"

\* a job's handler calls start_comfyui_server
start_call(j) ==
    /\ invocations[j] = "idle"
    /\ invocations' = [invocations EXCEPT ![j] = "test"]
    /\ UNCHANGED <<engines, raced, comfy_process>>
    /\ UNCHANGED <<hrest, jrest, wvars, pvars, cvars, svars, engine>>

\* the test of the global handle: return, or go on to Popen
start_test(j) ==
    /\ invocations[j] = "test"
    /\ IF already_running(comfy_process)
       THEN /\ invocations' = [invocations EXCEPT ![j] = "idle"]
            /\ UNCHANGED raced
       ELSE /\ invocations' = [invocations EXCEPT ![j] = "popen"]
            /\ raced' = (raced \/ \E k \in DOMAIN invocations : k # j /\ invocations[k] = "popen")
    /\ UNCHANGED <<engines, comfy_process>>
    /\ UNCHANGED <<hrest, jrest, wvars, pvars, cvars, svars, engine>>

\* comfy_process = subprocess.Popen(...): it raises and the global keeps its
\* value, or a new process runs and the global refers to it
start_popen(j) ==
    /\ invocations[j] = "popen"
    /\ \/ /\ invocations' = [invocations EXCEPT ![j] = "idle"]
          /\ UNCHANGED <<engines, comfy_process>>
       \/ /\ Len(engines) < MaxStarts
          /\ engines' = Append(engines, "alive")
          /\ comfy_process' = "running"
          /\ invocations' = [invocations EXCEPT ![j] = "probe"]
    /\ UNCHANGED raced
    /\ UNCHANGED <<hrest, jrest, wvars, pvars, cvars, svars, engine>>

\* if not check_server(...): raise RuntimeError -- either way the call ends
start_probe(j) ==
    /\ invocations[j] = "probe"
    /\ invocations' = [invocations EXCEPT ![j] = "idle"]
    /\ UNCHANGED <<engines, raced, comfy_process>>
    /\ UNCHANGED <<hrest, jrest, wvars, pvars, cvars, svars, engine>>

\* an engine process ends; poll() of the handle that refers to it tells
engine_exits(i) ==
    /\ engines[i] = "alive"
    /\ engines' = [engines EXCEPT ![i] = "dead"]
    /\ comfy_process' = IF i = Len(engines) THEN "exited" ELSE comfy_process
    /\ UNCHANGED <<invocations, raced>>
    /\ UNCHANGED <<hrest, jrest, wvars, pvars, cvars, svars, engine>>

(* ----------------------------- check_server ---------------------------- *)
MaxRetries == 3       \* the argument retries of check_server (handler and
                      \* start_comfyui_server pass 500)

\* what requests.get(url, timeout=5) does: an answer with its status code,
\* or an exception of requests
GetAnswers == {"200", "204", "503"}
GetErrors == {"Timeout", "ConnectionError"}

\* the classes of requests.RequestException
RequestExceptions == {"Timeout", "ConnectionError", "HTTPError"}

\* only the first except clause
check_catches_timeout_only(c) == c = "Timeout"

\* except requests.Timeout / except requests.RequestException
check_catches(c) == c = "Timeout" \/ c \in RequestExceptions

\* if response.status_code == 200
reachable(a) == a = "200"

\* one pass of the loop: the request, then return True or sleep
check_attempt ==
    /\ cpc = "loop"
    /\ Len(gets) < retries
    /\ \E a \in GetAnswers \cup GetErrors :
        /\ gets' = Append(gets, a)
        /\ IF a \in GetErrors /\ ~check_catches(a)
           THEN cpc' = "raised" /\ UNCHANGED c_ret
           ELSE IF a \in GetAnswers /\ reachable(a)
           THEN cpc' = "returned" /\ c_ret' = TRUE
           ELSE UNCHANGED <<cpc, c_ret>>
    /\ UNCHANGED retries
    /\ UNCHANGED <<hvars, wvars, pvars, kvars, svars, engine>>

\* range(retries) is used up: return False
check_exhausted ==
    /\ cpc = "loop"
    /\ ~(Len(gets) < retries)
    /\ cpc' = "returned"
    /\ c_ret' = FALSE
    /\ UNCHANGED <<retries, gets>>
    /\ UNCHANGED <<hvars, wvars, pvars, kvars, svars, engine>>

(* ------------------ queue_workflow, the answer 400 --------------------- *)
MaxNodes == 2         \* entries of node_errors
MaxTypes == 2         \* entries of one node's errors

\* a JSON object whose members are kept in their order: pairs of key k and
\* value v
OrderedDict(pairs) == [t |-> "dict", pairs |-> pairs]

NodeIds == { <<ToString(n)>> : n \in 1..MaxNodes }
ErrorTypes == { <<"type_", ToString(n)>> : n \in 1..MaxTypes }
ErrorText(type) == Str(<<"text of ">> \o type)

\* the sequences without repetition of at most n members of S
Orderings(S, n) ==
    { s \in UNION { [1..m -> S] : m \in 0..n } : \A a, b \in DOMAIN s : a # b => s[a] # s[b] }

\* the value of one node in node_errors: an object, or anything else
\* the error types of one node as the engine lists them: the first m types
\* in their order, or all of them in the reverse order
TypeOrders ==
    { s \in Orderings(ErrorTypes, MaxTypes) :
        \/ \A a \in DOMAIN s : s[a] = <<"type_", ToString(a)>>
        \/ /\ Len(s) = MaxTypes
           /\ \A a \in DOMAIN s : s[a] = <<"type_", ToString(MaxTypes + 1 - a)>> }

NodeErrors ==
    { OrderedDict([a \in DOMAIN types |-> [k |-> types[a], v |-> ErrorText(types[a])]]) :
        types \in TypeOrders }
    \cup { Str(<<"broken">>) }

NodeErrorsValues ==
    { OrderedDict([a \in DOMAIN ids |-> [k |-> ids[a], v |-> vals[a]]]) :
        <<ids, vals>> \in { x \in Orderings(NodeIds, MaxNodes) \X
                                  UNION { [1..m -> NodeErrors] : m \in 0..MaxNodes } :
                            Len(x[1]) = Len(x[2]) } }
    \cup { List }

ErrorInfos ==
    { Dict([type |-> Str(<<"prompt_outputs_failed_validation">>),
            message |-> Str(<<"Prompt outputs failed validation">>)]),
      Dict([type |-> Str(<<"prompt_no_outputs">>)]),
      Str(<<"invalid prompt">>) }

\* response.json() of an answer 400, or text that is not JSON
Bodies400 ==
    { InvalidJson, EmptyDict }
    \cup { Dict([error |-> e]) : e \in ErrorInfos }
    \cup { Dict([node_errors |-> n]) : n \in NodeErrorsValues }
    \cup { Dict([error |-> e, node_errors |-> n]) : e \in ErrorInfos, n \in NodeErrorsValues }

validation_failed == <<"Workflow validation failed">>

\* error_msg before the node errors are added
error_msg(data) ==
    IF "error" \in DOMAIN data.d
    THEN LET error_info == data.d["error"] IN
         IF error_info.t = "dict" THEN PyStr(Get(error_info, "message", Str(validation_failed)))
         ELSE PyStr(error_info)
    ELSE validation_failed

\* for error_type, msg in node_error.items(): details.append(...)
RECURSIVE type_details(_, _)
type_details(node_id, pairs) ==
    IF pairs = <<>> THEN <<>>
    ELSE << <<"Node ">> \o node_id \o <<" (">> \o Head(pairs).k \o <<"): ">> \o PyStr(Head(pairs).v) >>
         \o type_details(node_id, Tail(pairs))

\* for node_id, node_error in error_data["node_errors"].items(): ...
RECURSIVE node_details(_)
node_details(pairs) ==
    IF pairs = <<>> THEN <<>>
    ELSE LET node_id == Head(pairs).k
             node_error == Head(pairs).v
         IN (IF node_error.t = "dict"
             THEN type_details(node_id, node_error.pairs)
             ELSE << <<"Node ">> \o node_id \o <<": ">> \o PyStr(node_error) >>)
            \o node_details(Tail(pairs))

\* "\n".join(f"* {d}" for d in details)
RECURSIVE join_details(_)
join_details(details) ==
    IF details = <<>> THEN <<>>
    ELSE <<"* ">> \o Head(details)
         \o (IF Len(details) > 1 THEN <<"\n">> ELSE <<>>)
         \o join_details(Tail(details))

\* the exception that ends queue_workflow when the status is 400
rejection(body) ==
    IF body = InvalidJson
    THEN [exc |-> "ValueError", msg |-> <<"ComfyUI validation failed: ", "response.text">>]
    ELSE IF "node_errors" \notin DOMAIN body.d
    THEN [exc |-> "ValueError", msg |-> error_msg(body)]
    ELSE IF body.d["node_errors"].t # "dict"
    THEN [exc |-> "AttributeError", msg |-> <<"'list' object has no attribute 'items'">>]
    ELSE LET details == node_details(body.d["node_errors"].pairs) IN
         [exc |-> "ValueError",
          msg |-> IF details # <<>> THEN error_msg(body) \o <<":", "\n">> \o join_details(details)
                  ELSE error_msg(body)]

\* queue_workflow gets the answer 400 and raises
queue_workflow_rejected ==
    /\ hpc = "queue"
    /\ q_raised.exc = "none"
    /\ q_raised' = rejection(error_data)
    /\ UNCHANGED error_data
    /\ UNCHANGED <<hvars, wvars, pvars, kvars, cvars, engine>>

\* the except clauses of handler turn the exception into the response
handler_rejected ==
    /\ hpc = "queue"
    /\ q_raised.exc # "none"
    /\ response' = handler_except(q_raised.exc, q_raised.msg)
    /\ hpc' = "responded"
    /\ UNCHANGED <<lib, client_id, prompt_id, h_errors, monitors>>
    /\ UNCHANGED jvars
    /\ UNCHANGED <<wvars, pvars, xvars>>

(* ------------------------- kinds of payload ---------------------------- *)
Last(seq) == seq[Len(seq)]

\* a text payload holding a JSON object whose "data" is an object
IsMessage(out) ==
    /\ out.k = "text"
    /\ out.j.t = "dict"
    /\ "data" \in DOMAIN out.j.d
    /\ out.j.d["data"].t = "dict"

TypeOf(out) == IF "type" \in DOMAIN out.j.d THEN out.j.d["type"] ELSE Null
DataOf(out) == out.j.d["data"].d
Field(out, k) == IF k \in DOMAIN DataOf(out) THEN DataOf(out)[k] ELSE Null

\* `executing` with node = null for prompt pid
IsCompletion(out, pid) ==
    /\ IsMessage(out)
    /\ TypeOf(out) = Str(<<"executing">>)
    /\ Field(out, "node") = Null
    /\ Field(out, "prompt_id") = Str(pid)

\* `execution_error` for prompt pid
IsExecutionError(out, pid) ==
    /\ IsMessage(out)
    /\ TypeOf(out) = Str(<<"execution_error">>)
    /\ Field(out, "prompt_id") = Str(pid)

IsTerminal(out, pid) == IsCompletion(out, pid) \/ IsExecutionError(out, pid)

(* ---------------- the engine's side of the event stream ---------------- *)
\* the channel the monitor holds is connected
Subscribed == ws # 0 /\ chans[ws] = "connected"

\* the engine ends the execution of the prompt it accepted and sends the
\* terminal message to the channel subscribed with the job's client_id at
\* that moment, if there is one; it keeps no message for a later subscriber
engine_finishes ==
    /\ prompt_id # <<>>
    /\ engine.state = "idle"
    /\ engine' = [state |-> "finished", to |-> IF Subscribed THEN ws ELSE 0]
    /\ UNCHANGED <<hvars, wvars, pvars, kvars, cvars, svars>>

\* ws.recv() returns a payload the engine sent on this channel: the terminal
\* message of the job only if it was sent on it, other traffic as long as
\* there is room left for the terminal message
ws_recv_sent ==
    /\ ws_recv
    /\ IF IsTerminal(Last(consumed'), prompt_id)
       THEN engine.state = "finished" /\ engine.to = ws
       ELSE Len(consumed') < MaxMsgs

\* ws.recv() returns the terminal message of the job
ws_recv_terminal ==
    /\ ws_recv_sent
    /\ IsTerminal(Last(consumed'), prompt_id)

(* --------------------------- specification ----------------------------- *)
\* process_with_websocket has not been called
WebsocketIdle ==
    /\ wpc = "idle"
    /\ execution_done = FALSE
    /\ errors = <<>>
    /\ ws = 0
    /\ chans = <<>>
    /\ attempt = 0
    /\ consumed = <<>>
    /\ connects = <<>>
    /\ timeouts = 0
    /\ closures = 0
    /\ wexc = "none"

\* the locals of process_with_polling before its first loop test
PollingFresh ==
    /\ p_errors = <<>>
    /\ p_ret = [done |-> FALSE, errors |-> <<>>]
    /\ elapsed = 0
    /\ iter = [q |-> [ok |-> FALSE, pending |-> <<>>, running |-> <<>>],
               h |-> [ok |-> FALSE, keys |-> {}], asked |-> FALSE]

\* no monitor has been called
MonitorsIdle == WebsocketIdle /\ ppc = "idle" /\ PollingFresh

\* nothing has been collected
NothingCollected ==
    /\ h_errors = <<>>
    /\ response = <<>>
    /\ history = [exc |-> "unasked", msg |-> <<>>, val |-> Null]
    /\ todo = <<>>
    /\ output_data = <<>>
    /\ fetched = {}
    /\ scratch = <<>>

\* nothing has been submitted
NothingSubmitted ==
    /\ prompt_id = <<>>
    /\ monitors = <<>>
    /\ posts = 0
    /\ submission = [exc |-> "unsent", val |-> Null]
    /\ NothingCollected

\* a job without input images on a worker whose engine is up, past line 503
PastUploads ==
    /\ client_id \in ClientIds
    /\ job_input = Dict([workflow |-> Workflow])
    /\ comfy_process = "running"
    /\ bucket = FALSE
    /\ input_images = Null
    /\ uploaded = 0
    /\ upload_errors = <<>>
    /\ probes = <<TRUE>>

\* start_comfyui_server is not under way and has started nothing
WorkerIdle ==
    /\ invocations = <<>>
    /\ engines = <<>>
    /\ raced = FALSE

\* check_server has not been called
ProberIdle ==
    /\ cpc = "idle"
    /\ retries = 0
    /\ gets = <<>>
    /\ c_ret = FALSE

\* queue_workflow has met no 400 answer
SubmitterIdle ==
    /\ error_data = Null
    /\ q_raised = [exc |-> "none", msg |-> <<>>]

\* the engine's side of the event stream is left out
EngineIdle == engine = [state |-> "idle", to |-> 0]

OthersIdle == WorkerIdle /\ ProberIdle /\ SubmitterIdle /\ EngineIdle

\* the submission and the monitoring of a job
Init ==
    /\ N \in 0..MaxAttempts
    /\ lib \in BOOLEAN
    /\ hpc = "queue"
    /\ PastUploads
    /\ calls = {"GET /"}
    /\ NothingSubmitted
    /\ MonitorsIdle
    /\ OthersIdle

Next ==
    \/ handler_queue
    \/ handler_monitor
    \/ handler_websocket_returned
    \/ handler_websocket_raised
    \/ handler_polling_returned
    \/ ws_connect
    \/ ws_recv
    \/ ws_recv_timeout
    \/ ws_recv_closed
    \/ ws_recv_error
    \/ ws_reconnect
    \/ poll_iteration
    \/ poll_timeout

Spec == Init /\ [][Next]_vars

\* a whole call of handler, from job to response (the monitor call is one
\* step here and does not read N)
JobInit ==
    /\ N = MaxAttempts
    /\ lib \in BOOLEAN
    /\ hpc = "validate"
    /\ client_id = <<>>
    /\ job_input \in JobInputs
    /\ comfy_process \in {"none", "running", "exited"}
    /\ bucket \in BOOLEAN
    /\ probes = <<>>
    /\ input_images = Null
    /\ uploaded = 0
    /\ upload_errors = <<>>
    /\ calls = {}
    /\ NothingSubmitted
    /\ MonitorsIdle
    /\ OthersIdle

JobNext ==
    \/ handler_validate
    \/ handler_start
    \/ handler_check
    \/ upload_image
    \/ handler_uploaded
    \/ handler_queue
    \/ handler_monitored
    \/ handler_history
    \/ collect_artifact
    \/ handler_build

JobSpec == JobInit /\ [][JobNext]_vars

\* one call of process_with_polling, from its first loop test to its return
PollInit ==
    /\ N = MaxAttempts
    /\ lib = FALSE
    /\ hpc = "in_polling"
    /\ PastUploads
    /\ prompt_id \in PromptIds
    /\ monitors = <<"polling">>
    /\ calls = {"GET /", "POST /prompt"}
    /\ posts = 1
    /\ submission \in {r \in QueueResults : r.exc = "none" /\ r.val = Dict([prompt_id |-> Str(prompt_id)])}
    /\ NothingCollected
    /\ WebsocketIdle
    /\ ppc = "loop"
    /\ PollingFresh
    /\ OthersIdle

PollNext ==
    \/ poll_iteration
    \/ poll_timeout

\* each pass of the loop ends: its HTTP calls carry timeouts and the sleep is
\* one second
PollSpec == PollInit /\ [][PollNext]_vars /\ WF_vars(poll_iteration) /\ WF_vars(poll_timeout)

\* handler's state at line 478, for a job without input images
AtStart ==
    /\ client_id = <<>>
    /\ job_input = Dict([workflow |-> Workflow])
    /\ bucket = FALSE
    /\ probes = <<>>
    /\ input_images = Null
    /\ uploaded = 0
    /\ upload_errors = <<>>
    /\ calls = {}
    /\ NothingSubmitted
    /\ MonitorsIdle

\* a worker that has started no engine, and the jobs the harness hands it
WorkerInit ==
    /\ N = MaxAttempts
    /\ lib = TRUE
    /\ hpc = "start"
    /\ AtStart
    /\ comfy_process = "none"
    /\ invocations = [j \in 1..MaxJobs |-> "idle"]
    /\ engines = <<>>
    /\ raced = FALSE
    /\ ProberIdle
    /\ SubmitterIdle
    /\ EngineIdle

WorkerNext ==
    \/ \E j \in 1..MaxJobs : start_call(j)
    \/ \E j \in 1..MaxJobs : start_test(j)
    \/ \E j \in 1..MaxJobs : start_popen(j)
    \/ \E j \in 1..MaxJobs : start_probe(j)
    \/ \E i \in 1..Len(engines) : engine_exits(i)

WorkerSpec == WorkerInit /\ [][WorkerNext]_vars

\* one call of check_server, as handler makes it at line 485
CheckInit ==
    /\ N = MaxAttempts
    /\ lib = TRUE
    /\ hpc = "check"
    /\ AtStart
    /\ comfy_process = "running"
    /\ cpc = "loop"
    /\ retries \in 0..MaxRetries
    /\ gets = <<>>
    /\ c_ret = FALSE
    /\ WorkerIdle
    /\ SubmitterIdle
    /\ EngineIdle

CheckNext ==
    \/ check_attempt
    \/ check_exhausted

\* each pass ends: the request has a timeout of 5 seconds and the sleep is
\* delay milliseconds
CheckSpec == CheckInit /\ [][CheckNext]_vars /\ WF_vars(check_attempt) /\ WF_vars(check_exhausted)

\* a submission that the engine answers with status 400
SubmitInit ==
    /\ N = MaxAttempts
    /\ lib = TRUE
    /\ hpc = "queue"
    /\ PastUploads
    /\ calls = {"GET /"}
    /\ NothingSubmitted
    /\ MonitorsIdle
    /\ error_data \in Bodies400
    /\ q_raised = [exc |-> "none", msg |-> <<>>]
    /\ WorkerIdle
    /\ ProberIdle
    /\ EngineIdle

SubmitNext ==
    \/ queue_workflow_rejected
    \/ handler_rejected

SubmitSpec == SubmitInit /\ [][SubmitNext]_vars

\* a job from its submission to the end of process_with_websocket, with the
\* engine: the websocket library is there and N >= 1
StreamInit ==
    /\ N \in 1..MaxAttempts
    /\ lib = TRUE
    /\ hpc = "queue"
    /\ PastUploads
    /\ calls = {"GET /"}
    /\ NothingSubmitted
    /\ MonitorsIdle
    /\ OthersIdle

StreamNext ==
    \/ handler_queue
    \/ engine_finishes
    \/ handler_monitor
    \/ ws_connect
    \/ ws_recv_sent
    \/ ws_recv_timeout
    \/ ws_recv_closed
    \/ ws_recv_error
    \/ ws_reconnect
    \/ handler_websocket_returned
    \/ handler_websocket_raised

\* handler and the monitor go on running, every connect and every recv ends
\* (both carry a timeout), and a terminal message sent on the channel the
\* monitor receives on is delivered
StreamSpec ==
    /\ StreamInit
    /\ [][StreamNext]_vars
    /\ WF_vars(handler_queue)
    /\ WF_vars(handler_monitor)
    /\ WF_vars(ws_connect)
    /\ WF_vars(ws_reconnect)
    /\ WF_vars(ws_recv_terminal)
    /\ WF_vars(handler_websocket_returned)
    /\ WF_vars(handler_websocket_raised)

(* ------------------------------ claims --------------------------------- *)
\* the monitor has returned the outcome that the terminal message out stands for
OutcomeOf(out) ==
    /\ wpc = "returned"
    /\ IsCompletion(out, prompt_id) => execution_done /\ errors = <<>>
    /\ IsExecutionError(out, prompt_id) =>
        /\ ~execution_done
        /\ Len(errors) = 1
        /\ Contains(errors[1], <<"Node Type: ">> \o PyStr(Field(out, "node_type")))
        /\ Contains(errors[1], <<"Node ID: ">> \o PyStr(Field(out, "node_id")))
        /\ Contains(errors[1], <<"Message: ">> \o PyStr(Field(out, "exception_message")))

\* C1: a terminal message for the handle's prompt_id, once received, is the
\* last payload received and the monitor has returned its outcome: (true, [])
\* for `executing` with node = null, (false, [e]) with one error string that
\* carries node type, node id and engine message for `execution_error`; and
\* the monitor returns only on such a message.
C1_FirstTerminalFixesOutcome ==
    /\ \A i \in 1..Len(consumed) :
        IsTerminal(consumed[i], prompt_id) => i = Len(consumed) /\ OutcomeOf(consumed[i])
    /\ wpc = "returned" => consumed # <<>> /\ IsTerminal(Last(consumed), prompt_id)

C1_Witness ==
    /\ wpc = "returned"
    /\ Len(consumed) >= 2
    /\ IsExecutionError(Last(consumed), prompt_id)
    /\ Field(Last(consumed), "node_id") # Null
    /\ closures = 0

\* the reconnection attempts among the connect calls: all but the first
IsReconnect(i) == i >= 2

\* the last n connect calls were reconnection attempts and all failed
LastFailed(n) ==
    /\ Len(connects) > n
    /\ \A i \in (Len(connects) - n + 1)..Len(connects) : ~connects[i].ok

\* the reconnection budget is spent: N >= 1 attempts in a row have failed
Exhausted == N >= 1 /\ LastFailed(N)

\* C2: after a closed-channel signal followed by N failed reconnection
\* attempts, process_with_websocket has returned (done = false, errors
\* non-empty) and has not raised.
C2_ExhaustionIsReturned ==
    Exhausted => wpc = "returned" /\ ~execution_done /\ errors # <<>>

\* C3: after a closed-channel signal at most N reconnection attempts are made,
\* each to the URL of the first connect and each after the fixed delay; an
\* attempt that succeeds ends the attempts (at most one success per closure)
\* and puts the monitor back to receiving; a terminal message received on the
\* new channel still produces its outcome.
C3_BoundedReconnection ==
    /\ [](/\ \A i \in 2..Len(connects) :
                /\ connects[i].url = connects[1].url
                /\ connects[i].delay = WEBSOCKET_RECONNECT_DELAY_S
          /\ \A i \in 2..Len(connects) : \A j \in i..Len(connects) :
                (\A k \in i..(j - 1) : ~connects[k].ok) => j - i + 1 <= N
          /\ Cardinality({i \in 2..Len(connects) : connects[i].ok}) <= closures
          /\ wpc = "reconnect" =>
                /\ attempt < N
                /\ LastFailed(attempt)
                /\ connects[Len(connects) - attempt].ok
          /\ (Len(connects) >= 2 /\ consumed # <<>> /\ IsTerminal(Last(consumed), prompt_id))
                => OutcomeOf(Last(consumed)))
    /\ [][(Len(connects') > Len(connects) /\ Last(connects').ok) => wpc' = "recv"]_vars

C3_Witness ==
    /\ N = 2
    /\ Len(connects) = 3
    /\ ~connects[2].ok
    /\ connects[3].ok
    /\ wpc = "returned"
    /\ execution_done
    /\ chans = <<"closed", "unconnected", "closed">>

\* a message of a terminal kind that carries another prompt_id
IsNoise(out, pid) ==
    /\ IsMessage(out)
    /\ TypeOf(out) \in {Str(<<"executing">>), Str(<<"execution_error">>)}
    /\ Field(out, "prompt_id") # Null
    /\ Field(out, "prompt_id") # Str(pid)

RECURSIVE WithoutNoise(_, _)
WithoutNoise(seq, pid) ==
    IF seq = <<>> THEN <<>>
    ELSE IF IsNoise(Head(seq), pid) THEN WithoutNoise(Tail(seq), pid)
    ELSE <<Head(seq)>> \o WithoutNoise(Tail(seq), pid)

\* C4: a message for another prompt_id leaves done = false and errors empty
\* and the monitor receiving, and the monitor's state after the payloads it
\* received is the one the same payloads without those messages produce.
C4_NoiseIsIgnored ==
    /\ [](LET r == Run(WithoutNoise(consumed, prompt_id), prompt_id) IN
          /\ wpc \in {"recv", "reconnect"} => r.act = "continue"
          /\ wpc = "returned" =>
                /\ r.act \in {"done", "error"}
                /\ execution_done = (r.act = "done")
                /\ errors = IF r.act = "error" THEN <<r.err>> ELSE <<>>
          /\ (wpc = "raised" /\ wexc = "AttributeError") => r.act = "raise")
    /\ [][(consumed' # consumed /\ IsNoise(Last(consumed'), prompt_id)) =>
            /\ wpc' = "recv"
            /\ execution_done' = FALSE
            /\ errors' = <<>>
            /\ UNCHANGED <<ws, chans, attempt, connects, wexc>>]_vars

C4_Witness ==
    /\ wpc = "returned"
    /\ Len(consumed) = 2
    /\ IsNoise(consumed[1], prompt_id)
    /\ IsCompletion(consumed[1], P2)
    /\ IsCompletion(consumed[2], prompt_id)

\* one of the two pairs a monitor may return
WellFormedPair(done, errs) == (done /\ errs = <<>>) \/ (~done /\ errs # <<>>)

\* C5: a pair returned by process_with_websocket or process_with_polling is
\* (true, []) or (false, non-empty), and handler never fails a job with
\* 'monitoring exited without completion or error'.
C5_ReturnedPairIsWellFormed ==
    /\ wpc = "returned" => WellFormedPair(execution_done, errors)
    /\ ppc = "returned" => WellFormedPair(p_ret.done, p_ret.errors)
    /\ hpc = "responded" => response # [error |-> no_outcome]

C5_Witness ==
    /\ ppc = "returned"
    /\ ~p_ret.done
    /\ hpc = "history"
    /\ h_errors = <<timeout_message>>

\* C6: when process_with_websocket has returned or raised, none of the
\* channels it opened is connected.
C6_NoChannelLeftOpen ==
    wpc \in {"returned", "raised"} => \A i \in 1..Len(chans) : chans[i] # "connected"

C6_Witness ==
    /\ wpc = "raised"
    /\ wexc = "OSError"
    /\ Len(chans) = 2
    /\ connects[2].ok
    /\ chans = <<"closed", "closed">>

\* a payload that is not a message: bytes, text that is not JSON, JSON that is
\* not an object, or an object whose "data" is not an object
IsMalformed(out) ==
    \/ out.k = "bytes"
    \/ /\ out.k = "text"
       /\ \/ out.j.t # "dict"
          \/ "data" \in DOMAIN out.j.d /\ out.j.d["data"].t # "dict"

\* C7: a payload that cannot be interpreted as a message is skipped: done and
\* errors are unchanged, no exception leaves the monitor, and the monitor
\* goes on receiving.
C7_MalformedIsSkipped ==
    [][(consumed' # consumed /\ IsMalformed(Last(consumed'))) =>
            /\ wpc' = "recv"
            /\ wexc' = "none"
            /\ UNCHANGED <<execution_done, errors>>]_vars

\* C8: a receive timeout changes neither done nor errors, starts no
\* reconnection and opens no channel; after it the monitor is receiving on
\* the channel it was receiving on, which is still connected.
C8_TimeoutIsNotFailure ==
    [][timeouts' # timeouts =>
            /\ wpc = "recv" /\ wpc' = "recv"
            /\ chans'[ws'] = "connected"
            /\ UNCHANGED <<execution_done, errors, ws, chans, attempt, connects,
                           closures, consumed, wexc>>]_vars

C8_Witness ==
    /\ timeouts >= 2
    /\ wpc = "recv"
    /\ Len(connects) = 1
    /\ chans = <<"connected">>
    /\ consumed = <<>>

\* C9: a job that reaches monitoring runs exactly one monitor, no job runs
\* two; the monitor is process_with_polling iff `import websocket` fails.
C9_ExactlyOneMonitor ==
    /\ Len(monitors) <= 1
    /\ hpc \in {"in_websocket", "in_polling", "history"} => Len(monitors) = 1
    /\ monitors # <<>> => ((monitors[1] = "polling") <=> ~lib)
    /\ (ppc # "idle") <=> (monitors = <<"polling">>)
    /\ (wpc # "idle") <=> (monitors = <<"websocket">>)

C9_Witness ==
    /\ hpc = "responded"
    /\ wpc = "raised"
    /\ Exhausted
    /\ closures >= 1
    /\ monitors = <<"websocket">>
    /\ ppc = "idle"

\* the prompt ids of the entries of a queue list
ListIds(l) == {l[i].id : i \in 1..Len(l)}

\* C10: an iteration that starts before the timeout and finds the prompt_id
\* in neither the pending nor the running list, while the completed-work
\* record holds it, returns (true, []).
C10_AbsentAndCompletedReturns ==
    ( /\ iter.q.ok
      /\ prompt_id \notin ListIds(iter.q.pending)
      /\ prompt_id \notin ListIds(iter.q.running)
      /\ iter.h.ok
      /\ prompt_id \in iter.h.keys )
    => ppc = "returned" /\ p_ret = [done |-> TRUE, errors |-> <<>>]

\* a fetch of the iteration it failed: GET /queue, or the get_history it asked
FetchFailed(it) == ~it.q.ok \/ (it.asked /\ ~it.h.ok)

\* the iteration it found the prompt_id in the completed-work record
Resolved(it) == it.q.ok /\ it.asked /\ it.h.ok /\ prompt_id \in it.h.keys

\* C11: process_with_polling always ends, and by returning: (true, []) only
\* from an iteration that found the prompt_id completed, else (false, [m])
\* with the one timeout message once the timeout has passed; an iteration
\* whose fetch fails before the timeout leaves the loop running, with no
\* error recorded, and only lets time pass.
C11_PollingTerminates ==
    /\ <>(ppc = "returned")
    /\ [](ppc = "returned" =>
            \/ p_ret = [done |-> TRUE, errors |-> <<>>] /\ Resolved(iter)
            \/ /\ p_ret = [done |-> FALSE, errors |-> <<timeout_message>>]
               /\ elapsed >= PollTimeout)
    /\ [][(ppc = "loop" /\ elapsed < PollTimeout /\ FetchFailed(iter')) =>
            /\ ppc' = "loop"
            /\ p_errors' = <<>>
            /\ elapsed' > elapsed]_vars

C11_Witness ==
    /\ ppc = "returned"
    /\ p_ret = [done |-> FALSE, errors |-> <<timeout_message>>]
    /\ FetchFailed(iter)
    /\ ~iter.q.ok

\* the JSON value a job input stands for
ParsedInput(input) == IF input.t = "jsonstr" THEN input.j ELSE input

\* an entry of "images" that is not an object with the keys name and image
BadImageEntry(e) ==
    IF e.t # "dict" THEN TRUE
    ELSE "name" \notin DOMAIN e.d \/ "image" \notin DOMAIN e.d

\* an object that is an invalid job input: workflow missing, not an object
\* or empty, images not a list, or an entry of images without name or image
InvalidInput(input) ==
    LET p == ParsedInput(input) IN
    IF p.t # "dict" THEN FALSE
    ELSE IF "workflow" \notin DOMAIN p.d THEN TRUE
    ELSE IF p.d["workflow"].t # "dict" THEN TRUE
    ELSE IF p.d["workflow"].d = <<>> THEN TRUE
    ELSE IF "images" \notin DOMAIN p.d THEN FALSE
    ELSE IF p.d["images"].t # "list" THEN TRUE
    ELSE \E i \in 1..Len(p.d["images"].items) : BadImageEntry(p.d["images"].items[i])

\* C12: handler answers an invalid job input with {error: message} at its
\* first step: the engine process is not started, no request is sent to the
\* engine and no monitor is called.
C12_InvalidInputIsRejectedAtOnce ==
    InvalidInput(job_input) =>
        /\ hpc \in {"validate", "responded"}
        /\ calls = {}
        /\ posts = 0
        /\ monitors = <<>>
        /\ uploaded = 0
        /\ hpc = "responded" => DOMAIN response = {"error"} /\ response.error # <<>>

C12_Witness ==
    /\ hpc = "responded"
    /\ job_input = WithImages(ListOf(<<Image(B64Good), NoNameKey>>))
    /\ response = [error |-> <<"'images' must contain objects with 'name' and 'image' keys">>]
    /\ calls = {}

\* the images the job input supplies
Supplied == IF Truthy(input_images) THEN input_images.items ELSE <<>>

\* C13: POST /prompt is sent only after the last readiness probe, and every
\* probe before it, has succeeded and every supplied image has been gone
\* through and uploaded without an error; once a probe has failed or an
\* upload has left an error, nothing is submitted and the job ends with a
\* failure response.
C13_SubmissionAfterReadinessAndUploads ==
    /\ posts > 0 =>
        /\ probes # <<>>
        /\ \A i \in 1..Len(probes) : probes[i]
        /\ uploaded = Len(Supplied)
        /\ upload_errors = <<>>
        /\ Supplied # <<>> => "POST /upload/image" \in calls
    /\ (\E i \in 1..Len(probes) : ~probes[i]) =>
        /\ posts = 0
        /\ hpc = "responded"
        /\ "error" \in DOMAIN response
    /\ upload_errors # <<>> =>
        /\ posts = 0
        /\ hpc \in {"upload", "responded"}
        /\ hpc = "responded" => response = upload_failed(upload_errors)

C13_Witness ==
    /\ hpc = "responded"
    /\ Len(Supplied) = 2
    /\ uploaded = 2
    /\ Len(upload_errors) = 1
    /\ "POST /upload/image" \in calls
    /\ posts = 0
    /\ response = upload_failed(upload_errors)

\* the submission failed: queue_workflow raised (a 400 rejection, another
\* non-2xx status, a network error), or its answer has no prompt_id or an
\* empty one
SubmissionFailed ==
    \/ submission.exc \in {"ValueError", "RequestException"}
    \/ /\ submission.exc = "none"
       /\ Get(submission.val, "prompt_id", Null) \in {Null, Str(<<>>)}

\* C14: after a failed submission handler has returned a response whose only
\* key is `error`; POST /prompt was sent once; no monitor was called, the
\* history was not asked for and nothing was fetched or collected.
C14_FailedSubmissionEndsTheJob ==
    /\ posts <= 1
    /\ SubmissionFailed =>
        /\ hpc = "responded"
        /\ DOMAIN response = {"error"}
        /\ posts = 1
        /\ monitors = <<>>
        /\ calls \cap {"WS /ws", "GET /queue", "GET /history", "GET /view",
                       "rp_upload.upload_image"} = {}
        /\ history.exc = "unasked"
        /\ fetched = {}
        /\ output_data = <<>>

C14_Witness ==
    /\ hpc = "responded"
    /\ submission = [exc |-> "none", val |-> Dict([prompt_id |-> Str(<<>>)])]
    /\ response = [error |-> missing_prompt_id]
    /\ posts = 1

\* C15, as claimed: a job that ends with at least one accrued error and no
\* collected artifact ends with {error, details}, and one that ends with an
\* accrued error and a collected artifact ends with images and errors.
C15_ErrorsEscalateOnlyWithoutArtifacts ==
    (hpc = "responded" /\ h_errors # <<>>) =>
        IF output_data = <<>>
        THEN DOMAIN response = {"error", "details"}
        ELSE response = [images |-> output_data, errors |-> h_errors]

\* get_history raised
LookupFailed == history.exc \notin {"unasked", "none"}

\* C15, amended: a job that ends with at least one accrued error has asked
\* for the history; if that request raised, the response is {error} alone;
\* otherwise it is {error, details}, details ending with or being the
\* accrued errors, if and only if no artifact was collected, and else it is
\* {images, errors} with every collected artifact and every accrued error in
\* order.
C15_ErrorsEscalateUnlessLookupFails ==
    (hpc = "responded" /\ h_errors # <<>>) =>
        /\ history.exc # "unasked"
        /\ IF LookupFailed
           THEN DOMAIN response = {"error"} /\ output_data = <<>>
           ELSE IF output_data = <<>>
           THEN response = [error |-> job_failed, details |-> h_errors]
           ELSE /\ response = [images |-> output_data, errors |-> h_errors]
                /\ todo = <<>>

C15_Witness ==
    /\ hpc = "responded"
    /\ Len(h_errors) = 2
    /\ h_errors[1] = timeout_message
    /\ Len(output_data) = 1
    /\ response = [images |-> output_data, errors |-> h_errors]

\* the history holds the prompt_id
Found == history.exc = "none" /\ prompt_id \in DOMAIN history.val.d

\* handler has returned after the collection loop
Collected == hpc = "responded" /\ Found

\* C16: a job whose collection ends with no artifact and no error returns
\* {status: "success_no_images", images: []}, without an `error` key; no
\* other job returns that status.
C16_NothingCollectedIsSuccess ==
    /\ (Collected /\ output_data = <<>> /\ h_errors = <<>>) =>
            response = [status |-> <<"success_no_images">>, images |-> <<>>]
    /\ (hpc = "responded" /\ "status" \in DOMAIN response) =>
            Collected /\ output_data = <<>> /\ h_errors = <<>>

C16_Witness ==
    /\ Collected
    /\ Len(Artifacts) = 2
    /\ fetched = {}
    /\ h_errors = <<>>
    /\ response = [status |-> <<"success_no_images">>, images |-> <<>>]

\* get_history returned a mapping without the prompt_id
NotFound == history.exc = "none" /\ prompt_id \notin DOMAIN history.val.d

\* the errors the monitor reported
MonitorErrors == SubSeq(h_errors, 1, Len(h_errors) - 1)

\* C17: a job whose history lacks the prompt_id has returned without
\* fetching or collecting anything: {error: not-found message} if no error
\* had accrued, else {error, details}, details being the accrued errors
\* followed by the not-found message.
C17_MissingManifestFails ==
    NotFound =>
        /\ hpc = "responded"
        /\ fetched = {}
        /\ output_data = <<>>
        /\ todo = <<>>
        /\ "GET /view" \notin calls
        /\ IF h_errors = <<>>
           THEN response = [error |-> not_found(prompt_id)]
           ELSE /\ Len(h_errors) >= 2
                /\ Last(h_errors) = not_found(prompt_id)
                /\ not_found(prompt_id) \notin {MonitorErrors[i] : i \in DOMAIN MonitorErrors}
                /\ response = [error |-> job_failed, details |-> h_errors]

C17_Witness ==
    /\ NotFound
    /\ hpc = "responded"
    /\ Len(h_errors) = 2
    /\ Contains(h_errors[1], <<"Workflow execution error: ">>)
    /\ response = [error |-> job_failed, details |-> <<h_errors[1], not_found(prompt_id)>>]

\* the artifact is of the temp kind
IsTemp(a) == Get(a.info, "type", Null) = Str(<<"temp">>)

\* the first words of the errors the collection loop records
CollectionErrors ==
    {"Missing filename in node ", "Failed to fetch image data for ",
     "S3 upload failed: ", "Base64 encoding failed: "}

CollectedNames == {output_data[i].filename : i \in 1..Len(output_data)}

\* the artifact names a file
HasName(a) == Get(a.info, "filename", Null) \notin {Null, Str(<<>>)}

\* C19: no temp artifact is fetched or is in output_data, and the pass of the
\* loop over one changes neither errors nor output_data and makes no call;
\* when the loop is over every artifact that is not temp and names a file
\* has been fetched.
C19_TempIsNeverCollected ==
    /\ [](LET all == Artifacts IN
          \A i \in 1..Len(all) :
            IsTemp(all[i]) =>
                /\ i \notin fetched
                /\ PyStr(Get(all[i].info, "filename", Null)) \notin CollectedNames)
    /\ [][(hpc = "collect" /\ todo' # todo /\ IsTemp(Head(todo))) =>
            /\ todo' = Tail(todo)
            /\ UNCHANGED <<hpc, h_errors, output_data, fetched, calls, scratch>>]_vars
    /\ [](Collected =>
            LET all == Artifacts IN
            \A i \in 1..Len(all) : (~IsTemp(all[i]) /\ HasName(all[i])) => i \in fetched)

C19_Witness ==
    /\ Collected
    /\ Len(Artifacts) = 2
    /\ IsTemp(Artifacts[1])
    /\ ~IsTemp(Artifacts[2])
    /\ fetched = {2}
    /\ Len(output_data) = 1
    /\ h_errors = <<>>

\* C20: with the object-store endpoint configured, every scratch file made
\* for an artifact has been removed when the handling of that artifact ends,
\* whatever the upload did; none exists when handler returns.
C20_ScratchFilesAreRemoved ==
    \A i \in DOMAIN scratch : scratch[i] = "removed"

\* the engine processes that are alive
Alive == {i \in 1..Len(engines) : engines[i] = "alive"}

\* C21, as claimed: whatever the interleaving of the handler invocations, an
\* engine process is started only when none started before is alive, and a
\* job that finds the process running skips the start.
C21_StartedOnceUnderAnyInterleaving ==
    /\ [](Cardinality(Alive) <= 1)
    /\ [][Len(engines') > Len(engines) => Alive = {}]_vars

\* the step is job j's test of the handle
Tests(j) == invocations[j] = "test" /\ invocations'[j] # "test"

\* C21, amended: as long as no two calls of start_comfyui_server have
\* overlapped between the test of the handle and Popen, at most one engine
\* process is alive and one is started only when none started before is
\* alive; a job that finds the handle's process running skips the start, one
\* that finds no process or an ended one goes on to start it.
C21_StartedOnceWithoutOverlap ==
    /\ [](~raced => Cardinality(Alive) <= 1)
    /\ [][(Len(engines') > Len(engines) /\ ~raced') => Alive = {}]_vars
    /\ [][\A j \in DOMAIN invocations :
            Tests(j) => IF Len(engines) >= 1 /\ engines[Len(engines)] = "alive"
                        THEN invocations'[j] = "idle" /\ engines' = engines
                        ELSE invocations'[j] = "popen"]_vars

C21_Witness ==
    /\ ~raced
    /\ engines = <<"dead", "alive">>
    /\ invocations = <<"idle", "probe">>

\* the failure shape: `error`, a non-empty string, with or without `details`
IsFailure(r) ==
    /\ "error" \in DOMAIN r
    /\ DOMAIN r \subseteq {"error", "details"}
    /\ r.error # <<>>

\* the success shape: `images`, with `errors` only if there are some, and
\* the status key exactly when there is no image
IsSuccess(r) ==
    /\ "images" \in DOMAIN r
    /\ DOMAIN r \subseteq {"images", "errors", "status"}
    /\ "errors" \in DOMAIN r => r.errors # <<>>
    /\ IF r.images = <<>>
       THEN r = [status |-> <<"success_no_images">>, images |-> <<>>]
       ELSE "status" \notin DOMAIN r

\* C22: a response handler returned is a failure, {error} or {error,
\* details} without images, or a success, {images} or {images, errors}
\* without error; `errors` is never empty, and `images` is empty only in the
\* response {status: "success_no_images", images: []}.
C22_ResponseHasOneOfTwoShapes ==
    hpc = "responded" =>
        /\ IsFailure(response) \/ IsSuccess(response)
        /\ ~(IsFailure(response) /\ IsSuccess(response))

C22_Witness ==
    /\ hpc = "responded"
    /\ DOMAIN response = {"images"}
    /\ Len(response.images) = 2
    /\ response.images[1].type = <<"base64">>

\* an answer of the 200 class
Is2xx(a) == a \in {"200", "204"}

\* the attempts made so far that were answered as ok(.) says
Answered(ok(_)) == {i \in 1..Len(gets) : gets[i] \in GetAnswers /\ ok(gets[i])}

\* no exception has left check_server and it has made at most `retries`
\* requests; it has returned true at the first attempt that ok(.) accepts
\* and made no attempt after it, and has returned false only after
\* `retries` attempts none of which ok(.) accepts
ProbeOutcome(ok(_)) ==
    /\ cpc # "raised"
    /\ Len(gets) <= retries
    /\ Answered(ok) \subseteq {Len(gets)}
    /\ Answered(ok) # {} => cpc = "returned" /\ c_ret
    /\ cpc = "returned" =>
            IF c_ret THEN Answered(ok) = {Len(gets)}
            ELSE Len(gets) = retries /\ Answered(ok) = {}

RECURSIVE Lines(_)
Lines(text) ==
    IF \A a \in DOMAIN text : text[a] # "\n" THEN <<text>>
    ELSE LET a == CHOOSE b \in DOMAIN text :
                    text[b] = "\n" /\ \A c \in 1..(b - 1) : text[c] # "\n"
         IN <<SubSeq(text, 1, a - 1)>> \o Lines(SubSeq(text, a + 1, Len(text)))

\* the findings of node_errors in the order they are met: one for each
\* (node, error_type) pair of a node whose value is an object, one for a
\* node whose value is something else
RECURSIVE Findings(_)
Findings(nodes) ==
    IF nodes = <<>> THEN <<>>
    ELSE (IF Head(nodes).v.t = "dict"
          THEN [a \in DOMAIN Head(nodes).v.pairs |->
                    <<"Node ">> \o Head(nodes).k \o <<" (">> \o Head(nodes).v.pairs[a].k \o <<"): ">>]
          ELSE << <<"Node ">> \o Head(nodes).k \o <<": ">> >>)
         \o Findings(Tail(nodes))

\* the findings the body declares, whatever the JSON type of node_errors
Declared(body) ==
    IF body.d["node_errors"].t = "dict" THEN Findings(body.d["node_errors"].pairs) ELSE <<>>

\* the engine's top-level error message, or the default one
TopMessage(body) ==
    IF "error" \notin DOMAIN body.d THEN validation_failed
    ELSE IF body.d["error"].t # "dict" THEN PyStr(body.d["error"])
    ELSE IF "message" \in DOMAIN body.d["error"].d THEN body.d["error"].d["message"].s
    ELSE validation_failed

HasNodeErrors(body) == body # Null /\ body.t = "dict" /\ "node_errors" \in DOMAIN body.d

\* C24: for an answer 400 whose body holds node_errors, queue_workflow
\* raises ValueError with a text whose first line starts with the engine's
\* top-level message and whose other lines are one for each finding of
\* node_errors, in the order met, each naming its node and error type.
C24_OneLinePerNodeError ==
    (HasNodeErrors(error_data) /\ q_raised.exc # "none") =>
        LET lines == Lines(q_raised.msg)
            found == Declared(error_data)
            top == TopMessage(error_data)
        IN /\ q_raised.exc = "ValueError"
           /\ SubSeq(Head(lines), 1, Len(top)) = top
           /\ Len(lines) = 1 + Len(found)
           /\ \A a \in DOMAIN found : Contains(lines[a + 1], found[a])

\* the same holds of every body whose node_errors is an object
ItemisedWhenNodeErrorsIsAnObject ==
    (HasNodeErrors(error_data) /\ error_data.d["node_errors"].t = "dict") =>
        C24_OneLinePerNodeError

\* the snapshot of the iteration it lists the prompt_id as pending or running
Listed(it) ==
    it.q.ok /\ prompt_id \in ListIds(it.q.pending) \cup ListIds(it.q.running)

\* C25: an iteration whose snapshot lists the prompt_id as pending or
\* running does not ask for the history and does not return done = true;
\* the history is asked for, and done = true returned, only in an iteration
\* whose snapshot was fetched and lists the prompt_id in neither list.
C25_ListedIsNeverDone ==
    /\ Listed(iter) => ~iter.asked /\ ~(ppc = "returned" /\ p_ret.done)
    /\ iter.asked => iter.q.ok /\ ~Listed(iter)
    /\ (ppc = "returned" /\ p_ret.done) => iter.asked /\ ~Listed(iter)

C25_Witness ==
    /\ ppc = "loop"
    /\ elapsed > 0
    /\ iter.q.pending = <<>>
    /\ Len(iter.q.running) = 1
    /\ iter.q.running[1].id = prompt_id
    /\ iter.h.ok
    /\ prompt_id \in iter.h.keys
    /\ ~iter.asked

\* C26: the event channel is opened only after the submission has returned
\* a prompt_id, and once the engine has sent the terminal message of the
\* job, at whatever moment after it accepted the submission, the monitor
\* ends and handler responds.
C26_TerminalMessageIsNeverMissed ==
    /\ [](connects # <<>> => submission.exc = "none" /\ prompt_id # <<>>)
    /\ [](engine.state = "finished" => <>(wpc \in {"returned", "raised"} /\ hpc = "responded"))

\* a terminal message sent on the channel the monitor receives on is
\* received, unless that channel closes or fails first
SentIsReceived ==
    [](engine.state = "finished" /\ engine.to # 0 =>
        <>(\/ wpc = "returned" /\ consumed # <<>> /\ IsTerminal(Last(consumed), prompt_id)
           \/ engine.to # 0 /\ chans[engine.to] # "connected"))

\* the monitor ended because a reconnection attempt failed
ChannelFailure ==
    /\ wpc = "raised"
    /\ Len(connects) >= 2
    /\ ~Last(connects).ok

\* C27: every closed-channel signal starts the count of reconnection
\* attempts at zero, whatever number of attempts was made before it; the
\* monitor ends on a channel failure only after N attempts in a row have
\* failed since the last closure, so it never does while every
\* reconnection succeeds, however many closures there are.
C27_BudgetIsPerClosure ==
    /\ [][closures' > closures => attempt' = 0]_vars
    /\ [](/\ wpc = "reconnect" => LastFailed(attempt) /\ connects[Len(connects) - attempt].ok
          /\ ChannelFailure => N >= 1 /\ LastFailed(N) /\ connects[Len(connects) - N].ok
          /\ (\A i \in 2..Len(connects) : connects[i].ok) => ~ChannelFailure)

C27_Witness ==
    /\ N = 1
    /\ closures = 2
    /\ Len(connects) = 3
    /\ \A i \in 1..3 : connects[i].ok
    /\ wpc = "returned"
    /\ execution_done

\* C28: while the monitor is receiving, the channel it receives on is
\* connected: after a closed-channel signal it is back to receiving only
\* once a reconnection has succeeded, for every N >= 0.
C28_ReceivesOnlyOnAConnectedChannel ==
    wpc = "recv" => chans[ws] = "connected"

\* the same holds of every N >= 1
ConnectedWhenReceivingWithABudget ==
    (N >= 1 /\ wpc = "recv") => chans[ws] = "connected"

\* Popen raised inside start_comfyui_server
StartFailed == "Popen" \in calls /\ probes = <<>>

\* the last call of check_server returned False
ProbeFailed == probes # <<>> /\ ~Last(probes)

UploadFailed == upload_errors # <<>>

\* the monitor raised, or returned neither completion nor error: handler
\* ended without asking for the manifest
MonitoringEndedTheJob == monitors # <<>> /\ history.exc = "unasked"

\* get_history raised, or the manifest has no entry for the job
ManifestUnavailable == LookupFailed \/ NotFound

\* a failure that ends handler before the collection loop
EarlyFailure ==
    \/ StartFailed
    \/ ProbeFailed
    \/ UploadFailed
    \/ SubmissionFailed
    \/ MonitoringEndedTheJob
    \/ ManifestUnavailable

\* an exception leaves handler only from validate_input, before anything
\* else was done
EscapesOnlyFromValidation == hpc = "raised" => calls = {} /\ input_images = Null

\* C29 as stated: once validation has passed no exception escapes handler,
\* and every failure (start, probe, upload, submission, monitoring, lookup,
\* or an error recorded by the monitor or the collection loop) is answered
\* with a response that contains `error`.
C29_EveryFailureAnswersError ==
    /\ EscapesOnlyFromValidation
    /\ (hpc = "responded" /\ (EarlyFailure \/ h_errors # <<>>)) => "error" \in DOMAIN response

\* C29 amended: once validation has passed no exception escapes handler;
\* a failure that ends the job before the collection loop is answered with
\* `error`; errors recorded by the monitor or the collection loop are
\* answered with `error` and `details` when no artifact was collected, and
\* with `images` and `errors`, without `error`, when at least one was.
C29_EveryFailureIsAnswered ==
    /\ EscapesOnlyFromValidation
    /\ (hpc = "responded" /\ EarlyFailure) => "error" \in DOMAIN response
    /\ (hpc = "responded" /\ ~EarlyFailure /\ h_errors # <<>>) =>
            IF output_data = <<>>
            THEN response = [error |-> job_failed, details |-> h_errors]
            ELSE response = [images |-> output_data, errors |-> h_errors]

\* the monitor reported an execution error, an artifact was collected all
\* the same, and the response carries both
C29_Witness ==
    /\ hpc = "responded"
    /\ monitors = <<"websocket">>
    /\ h_errors # <<>>
    /\ output_data # <<>>
    /\ "errors" \in DOMAIN response
    /\ "error" \notin DOMAIN response

\* C30: when the manifest entry of the job exists, its outputs are empty and
\* the monitor reported no error, handler records 'Workflow produced no
\* outputs' and returns {error: 'Job processing failed', details: [that
\* error]}; the status success_no_images is returned only when outputs is not
\* empty, no error was recorded and every declared artifact was skipped.
C30_EmptyOutputsIsAHardFailure ==
    /\ [][(hpc = "history" /\ hpc' = "collect" /\ Outputs' = <<>> /\ h_errors = <<>>)
            => h_errors' = <<no_outputs>>]_vars
    /\ [](/\ (hpc = "responded" /\ Found /\ Outputs = <<>> /\ h_errors = <<no_outputs>>)
                => response = [error |-> job_failed, details |-> <<no_outputs>>]
          /\ (hpc = "responded" /\ "status" \in DOMAIN response)
                => /\ response = [status |-> <<"success_no_images">>, images |-> <<>>]
                   /\ Found
                   /\ Outputs # <<>>
                   /\ h_errors = <<>>
                   /\ fetched = {}
                   /\ \A a \in DOMAIN Artifacts :
                        skipped(Get(Artifacts[a].info, "type", Null)))

\* the manifest entry of a completed job has no outputs
C30_Witness ==
    /\ hpc = "responded"
    /\ Found
    /\ Outputs = <<>>
    /\ response = [error |-> job_failed, details |-> <<no_outputs>>]

====
